---- MODULE Spec2Model ----
(***************************************************************************)
(* Folium server: the two-process request pipeline.                        *)
(*   Edge  = gateway::Gateway (http_gateway.cc) run by main.cc's parent    *)
(*   Core  = dispatcher::Dispatcher (dispatcher.cc) run by main.cc's child *)
(* coupled by the two FIFOs GW2DP (Edge -> Core) and DP2GW (Core -> Edge). *)
(***************************************************************************)
EXTENDS Integers, Sequences, FiniteSets, TLC

(* ---- bounds of the model ---------------------------------------------- *)
MaxThreads == 1          \* largest numThreads, Edge and Core together
MaxReq == 2              \* number of HTTP requests the Edge receives
HarnessThreads == 2      \* largest numThreads, Core driven by a test peer
HarnessTasks == 2        \* number of records the test peer writes
DeepThreads == 3         \* largest numThreads where the queue gets deep
DeepTasks == 3           \* number of records the test peer writes there
ScenarioThreads == 1     \* largest numThreads in the scenarios of the handlers
ScenarioTasks == 3       \* number of records the test peer writes there

Max(a, b) == IF a > b THEN a ELSE b

\* thread ids of createThreadPool
Workers == 0 .. (Max(Max(MaxThreads, HarnessThreads), Max(DeepThreads, ScenarioThreads)) - 1)
Requests == 1 .. MaxReq               \* one HTTP handler call per request
Tags == 0 .. Max(Max(MaxReq, HarnessTasks), Max(DeepTasks, ScenarioTasks))

(* ---- F_Task (f_task.h) ------------------------------------------------ *)
\* The fields type_, data_ and threadId_ are the program's.  The field id is
\* a history tag naming the HTTP request the record stems from (0: none);
\* the program has no such field and never reads it.
F_Task(type, data, id) == [type |-> type, data |-> data, id |-> id, threadId |-> 0]

\* data_ is a nlohmann::json: an object is a record of its keys, and the
\* default-constructed json (null) is the empty function
Null == <<>>

\* json::contains(key)
contains(j, key) == key \in DOMAIN j

\* std::string::size()
size(str) == Len(str)

NoTask == F_Task("NONE", Null, 0)

getPriority(type) ==
    CASE type = "SYSKILL" -> 1
      [] type = "PING" -> 2
      [] type = "SIGN_IN" -> 3
      [] type \in {"REGISTER", "AUTH_REFRESH"} -> 4
      [] type \in {"AUTH_CHANGE_PASSWORD", "LOG_OUT"} -> 5
      [] type \in {"GET_CLASSES", "GET_ME_CLASSES", "POST_ME_CLASSES",
                   "GET_CLASS_DETAILS", "GET_CLASS_OWNER", "GET_CLASS_NAME",
                   "GET_CLASS_DESCRIPTION", "GET_CLASS_BIGNOTE",
                   "GET_CLASS_TITLE"} -> 6
      [] type \in {"PUT_CLASS", "DELETE_CLASS"} -> 7
      [] type \in {"POST_UPLOAD_NOTE", "CREATE_NOTE"} -> 7
      [] type \in {"PUT_BIGNOTE_EDIT", "EDIT_NOTE"} -> 8
      [] type \in {"GET_BIGNOTE_HISTORY", "GET_BIGNOTE_EXPORT"} -> 8
      [] OTHER -> 10

(* ---- the routes of the Edge -------------------------------------------- *)
\* the two routes the clients of the whole system ask for
Routes == {"/ping-core", "/api/auth/register"}

\* the routes under /api/auth
AuthRoutes == {"/api/auth/register", "/api/auth/login", "/api/auth/logout"}

\* the task a route's lambda builds: /ping-core a PING, register and login
\* both a task with task.type_ = F_TaskType::REGISTER
RouteTask(route, r) ==
    IF route = "/ping-core"
    THEN F_Task("PING", Null, r)
    ELSE F_Task("REGISTER", [username |-> "alice", password |-> "secret123"], r)

\* among Routes, the routes that parse the request body as JSON
JsonRoutes == {"/api/auth/register"}

\* the catch block of a route: status 400 and the exception's what()
CatchResponseOk(what) == [status |-> 200, body |-> [error |-> what]]

CatchResponse(what) == [status |-> 400, body |-> [error |-> what]]

\* res.status of a route after processTaskAndWaitForResponse has returned
StatusOf(outputTask) == IF outputTask.type = "ERROR" THEN 400 ELSE 200

\* the rest of a route's lambda: the HTTP response it makes of outputTask
RouteResponse(route, outputTask) ==
    IF route = "/ping-core"
    THEN [status |-> StatusOf(outputTask), body |-> [message |-> "pong!"]]
    ELSE IF route = "/api/auth/login"
    THEN [status |-> StatusOf(outputTask), body |-> outputTask.data]
    ELSE IF ~contains(outputTask.data, "message") \/ ~contains(outputTask.data, "userId")
    THEN CatchResponse("Fatal")
    ELSE [status |-> StatusOf(outputTask),
          body |-> [message |-> outputTask.data.message,
                    userId |-> outputTask.data.userId]]

\* no response yet
NoResponse == [status |-> 0, body |-> Null]

(* ---- taskQueue_: std::priority_queue over a std::vector --------------- *)
\* An element of the queue: the task and the priority it is ordered by.
\* seq is a history tag, the order of the pushes; the program has none.
PrioritizedTask(t, n) == [task |-> t, priority |-> getPriority(t.type), seq |-> n]

\* comp(a, b): a is ordered after b.  Lower priority value comes first.
TaskComparatorFlipped(a, b) == a.priority < b.priority

TaskComparator(a, b) == a.priority > b.priority

\* std::push_heap's sift-up.  Indices are the vector's (0-based); the
\* sequence is 1-based, hence the +1.
RECURSIVE push_heap(_, _, _, _)
push_heap(first, holeIndex, topIndex, value) ==
    LET parent == (holeIndex - 1) \div 2 IN
    IF holeIndex > topIndex /\ TaskComparator(first[parent + 1], value)
    THEN push_heap([first EXCEPT ![holeIndex + 1] = first[parent + 1]],
                   parent, topIndex, value)
    ELSE [first EXCEPT ![holeIndex + 1] = value]

\* the while loop of std::__adjust_heap: the hole moves down to a leaf,
\* each time below the child that comp orders first
RECURSIVE adjust_loop(_, _, _, _)
adjust_loop(first, holeIndex, secondChild, len) ==
    IF secondChild < (len - 1) \div 2
    THEN LET right == 2 * (secondChild + 1)
             child == IF TaskComparator(first[right + 1], first[right])
                      THEN right - 1 ELSE right
         IN adjust_loop([first EXCEPT ![holeIndex + 1] = first[child + 1]],
                        child, child, len)
    ELSE <<first, holeIndex, secondChild>>

adjust_heap(first, len, value) ==
    LET r == adjust_loop(first, 0, 0, len)
        f1 == r[1]
        h1 == r[2]
        c1 == r[3]
        onlyLeft == (len % 2 = 0) /\ (c1 = (len - 2) \div 2)
        f2 == IF onlyLeft THEN [f1 EXCEPT ![h1 + 1] = f1[2 * (c1 + 1)]] ELSE f1
        h2 == IF onlyLeft THEN 2 * (c1 + 1) - 1 ELSE h1
    IN push_heap(f2, h2, 0, value)

\* taskQueue_.push(task): c.push_back(x); std::push_heap(c.begin(), c.end())
QueuePush(q, e) == push_heap(Append(q, e), Len(q), 0, e)

\* taskQueue_.top(): c.front()
QueueTop(q) == q[1]

\* taskQueue_.pop(): std::pop_heap(c.begin(), c.end()); c.pop_back()
QueuePop(q) ==
    IF Len(q) <= 1 THEN <<>>
    ELSE adjust_heap(SubSeq(q, 1, Len(q) - 1), Len(q) - 1, q[Len(q)])

(* ---- the handlers of the Core (dispatcher.cc) ------------------------- *)
\* What the handlers get from auth:: and DAL:: is an input of the model:
\* "ok" the call succeeds, "fail" it reports failure (false, an empty
\* result, a std::runtime_error, a file that does not exist).
Outcomes == {"ok", "fail"}

\* A third outcome: the call raises a std::runtime_error for a reason of the
\* database or the file system (a query that fails, a file that does not parse).
Throwing == Outcomes \cup {"throws"}

\* what() of DAL::getUserByUsername when mysql_query fails
QueryFailed == "getUserByUsername: Query failed"

\* what() of DAL::readJsonFile when the file does not parse
ParseFailed == "readJsonFile: Failed to parse JSON file"

MIN_USERNAME_LENGTH == 3
MIN_PASSWORD_LENGTH == 5

SystemTypes == {"PING", "SYSKILL", "ERROR"}
AuthTypes == {"REGISTER", "SIGN_IN", "LOG_OUT", "AUTH_REFRESH", "AUTH_CHANGE_PASSWORD"}
ClassTypes == {"GET_CLASSES", "GET_ME_CLASSES", "POST_ME_CLASSES", "PUT_CLASS",
               "DELETE_CLASS", "GET_CLASS_DETAILS", "GET_CLASS_OWNER",
               "GET_CLASS_NAME", "GET_CLASS_DESCRIPTION", "GET_CLASS_BIGNOTE",
               "GET_CLASS_TITLE"}
NoteTypes == {"POST_UPLOAD_NOTE", "PUT_BIGNOTE_EDIT", "GET_BIGNOTE_HISTORY",
              "GET_BIGNOTE_EXPORT", "CREATE_NOTE", "EDIT_NOTE"}

\* handleSystemTask: the new data_
handleSystemTask(task) ==
    CASE task.type = "PING" ->
             [statusCode |-> 200, message |-> "pong from dispatch"]
      [] task.type = "SYSKILL" ->
             [statusCode |-> 200, message |-> "SYSKILL acknowledged"]
      [] OTHER ->
             [statusCode |-> IF contains(task.data, "statusCode")
                             THEN task.data.statusCode ELSE 400,
              error |-> IF contains(task.data, "error")
                        THEN task.data.error ELSE "Unknown error occurred."]

\* handleAuthTask: the new data_
\* the tokens jwt::decode takes apart without throwing
WellFormedTokens == {"jwt"}

\* auth::refreshToken: what it throws, if anything, and what it returns.
\* jwt::decode throws for a token that is not well formed, DAL::insertToken
\* may fail (outcome); the catch block turns every std::exception into "".
refreshToken(token, outcome) ==
    IF token \notin WellFormedTokens
    THEN [threw |-> "", ret |-> ""]
    ELSE IF outcome # "ok"
    THEN [threw |-> "", ret |-> ""]
    ELSE [threw |-> "", ret |-> "jwt"]

\* auth::registerUser: what() of the std::runtime_error it leaves with
registerUserThrows(outcome) ==
    CASE outcome = "ok" -> ""
      [] outcome = "fail" -> "User already exists"
      [] OTHER -> QueryFailed

handleAuthTask(task, outcome) ==
    LET req == task.data IN
    CASE task.type = "REGISTER" ->
             IF ~contains(req, "username") \/ ~contains(req, "password")
             THEN [statusCode |-> 400, error |-> "Missing username or password"]
             ELSE IF size(req.username) < MIN_USERNAME_LENGTH
                     \/ size(req.password) < MIN_PASSWORD_LENGTH
             THEN [statusCode |-> 400, error |-> "Username/password too short"]
             ELSE IF outcome = "ok"
             THEN [statusCode |-> 201, message |-> "User registered successfully",
                   userId |-> 1]
             ELSE [statusCode |-> 400, error |-> registerUserThrows(outcome)]
      [] task.type = "SIGN_IN" ->
             IF ~contains(req, "username") \/ ~contains(req, "password")
             THEN [statusCode |-> 400, error |-> "Missing username or password"]
             ELSE IF outcome # "ok"
             THEN [statusCode |-> 401, error |-> "Invalid credentials"]
             ELSE [statusCode |-> 200, token |-> "jwt", sessionId |-> "sess"]
      [] task.type = "LOG_OUT" ->
             IF ~contains(req, "token")
             THEN [statusCode |-> 401, error |-> "Missing or invalid token"]
             ELSE [statusCode |-> 200, message |-> "Logout successful"]
      [] task.type = "AUTH_REFRESH" ->
             IF ~contains(req, "refreshToken")
             THEN [statusCode |-> 401, error |-> "Missing refresh token"]
             ELSE IF refreshToken(req.refreshToken, outcome).threw # ""
             THEN [statusCode |-> 401,
                   error |-> refreshToken(req.refreshToken, outcome).threw]
             ELSE [statusCode |-> 200,
                   token |-> refreshToken(req.refreshToken, outcome).ret]
      [] task.type = "AUTH_CHANGE_PASSWORD" ->
             IF ~contains(req, "username") \/ ~contains(req, "currentPassword")
                  \/ ~contains(req, "newPassword")
             THEN [statusCode |-> 400, error |-> "Missing required fields"]
             ELSE IF outcome = "ok"
             THEN [statusCode |-> 200, message |-> "Password changed successfully"]
             ELSE [statusCode |-> 400, error |-> "Could not change password"]
      [] OTHER -> [statusCode |-> 400, error |-> "Unknown Auth task"]

\* The cases of handleClassesTask and handleNotesTask have one shape: an
\* error object if a required key is missing, a 404 error object if the
\* class file does not exist (where the case looks for it), else a result
\* object.  The result's keys other than statusCode are abridged to result,
\* and the error texts to one per kind of failure.
RequiredKeys(type) ==
    CASE type = "GET_CLASSES" -> {}
      [] type = "GET_ME_CLASSES" -> {"userId"}
      [] type = "POST_ME_CLASSES" -> {"userId", "name", "classId"}
      [] type \in {"POST_UPLOAD_NOTE", "CREATE_NOTE"} -> {"userId", "classId", "noteFile"}
      [] type \in {"PUT_BIGNOTE_EDIT", "EDIT_NOTE"} -> {"userId", "classId", "content"}
      [] OTHER -> {"userId", "classId"}

\* the statusCode of the error for a missing key
MissingCode(type) ==
    IF type \in {"POST_ME_CLASSES", "PUT_CLASS", "DELETE_CLASS", "POST_UPLOAD_NOTE",
                 "CREATE_NOTE", "PUT_BIGNOTE_EDIT", "EDIT_NOTE"}
    THEN 400 ELSE 401

\* the cases that test std::filesystem::exists(path)
ChecksFile(type) ==
    type \notin {"GET_CLASSES", "GET_ME_CLASSES", "POST_ME_CLASSES", "POST_UPLOAD_NOTE",
                 "CREATE_NOTE", "GET_BIGNOTE_EXPORT"}

\* the statusCode of the result
SuccessCode(type) ==
    IF type \in {"POST_ME_CLASSES", "POST_UPLOAD_NOTE", "CREATE_NOTE"} THEN 201 ELSE 200

\* the cases whose DAL call throws whatever the request holds:
\* GET_CLASSES calls getClassIds(0), which rejects user id 0, and
\* POST_ME_CLASSES calls writeJsonFile on an object without "file_path"
AlwaysThrows(type) ==
    CASE type = "GET_CLASSES" -> "getClassIds: user_id must be non-zero."
      [] type = "POST_ME_CLASSES" -> "writeJsonFile: Missing 'file_path' field in JSON data."
      [] OTHER -> ""

\* the cases that call into DAL:: with what the request holds
CallsDAL(type) == ChecksFile(type) \/ type = "GET_ME_CLASSES"

\* what() of the std::exception a DAL:: call of the case raises ("" if none)
DalThrows(type, outcome) ==
    IF AlwaysThrows(type) # "" THEN AlwaysThrows(type)
    ELSE IF CallsDAL(type) /\ outcome = "throws" THEN ParseFailed
    ELSE ""

\* catch (const std::exception &ex): the data_ it makes of ex.what()
catch_exception(what) == [statusCode |-> 500, error |-> what]

handleClassesTask(task, outcome) ==
    IF \E key \in RequiredKeys(task.type) : ~contains(task.data, key)
    THEN [statusCode |-> MissingCode(task.type), error |-> "Missing userId or classId"]
    ELSE IF ChecksFile(task.type) /\ outcome = "fail"
    THEN [statusCode |-> 404, error |-> "Class not found"]
    ELSE IF DalThrows(task.type, outcome) # ""
    THEN catch_exception(DalThrows(task.type, outcome))
    ELSE [statusCode |-> SuccessCode(task.type), result |-> task.type]

handleNotesTask(task, outcome) ==
    IF \E key \in RequiredKeys(task.type) : ~contains(task.data, key)
    THEN [statusCode |-> MissingCode(task.type), error |-> "Missing required fields"]
    ELSE IF ChecksFile(task.type) /\ outcome = "fail"
    THEN [statusCode |-> 404, error |-> "Class not found"]
    ELSE IF DalThrows(task.type, outcome) # ""
    THEN catch_exception(DalThrows(task.type, outcome))
    ELSE IF task.type = "GET_BIGNOTE_EXPORT" /\ contains(task.data, "format")
            /\ task.data.format \notin {"PDF", "Markdown"}
    THEN [statusCode |-> 400, error |-> "Invalid export format"]
    ELSE [statusCode |-> SuccessCode(task.type), result |-> task.type]

\* what() of the exception that leaves the handler of the task ("" if none):
\* handleAuthTask has no try block around auth::check_credentials and
\* auth::changePassword, which pass on what DAL::getUserByUsername throws
Escapes(task, outcome) ==
    IF /\ outcome = "throws"
       /\ \/ task.type = "SIGN_IN"
             /\ contains(task.data, "username") /\ contains(task.data, "password")
          \/ task.type = "AUTH_CHANGE_PASSWORD"
             /\ contains(task.data, "username") /\ contains(task.data, "currentPassword")
             /\ contains(task.data, "newPassword")
    THEN QueryFailed
    ELSE ""

\* what() of the exception raised while the handler of the task runs, be it
\* caught by the handler or by processTask ("" if none)
Raised(task, outcome) ==
    IF Escapes(task, outcome) # "" THEN Escapes(task, outcome)
    ELSE IF /\ task.type = "REGISTER"
            /\ contains(task.data, "username") /\ contains(task.data, "password")
    THEN IF size(task.data.username) < MIN_USERNAME_LENGTH
              \/ size(task.data.password) < MIN_PASSWORD_LENGTH
         THEN ""
         ELSE registerUserThrows(outcome)
    ELSE IF /\ task.type \in ClassTypes \cup NoteTypes
            /\ \A key \in RequiredKeys(task.type) : contains(task.data, key)
            /\ ~(ChecksFile(task.type) /\ outcome = "fail")
    THEN DalThrows(task.type, outcome)
    ELSE ""

\* processTask: the reply is the task itself, type_ untouched, with data_
\* replaced by what the handler of its type made, or by what the catch block
\* makes of the exception that left the handler
processTask(task, outcome) ==
    [task EXCEPT !.data =
        IF Escapes(task, outcome) # "" THEN catch_exception(Escapes(task, outcome))
        ELSE
        CASE task.type \in SystemTypes -> handleSystemTask(task)
          [] task.type \in AuthTypes -> handleAuthTask(task, outcome)
          [] task.type \in ClassTypes -> handleClassesTask(task, outcome)
          [] task.type \in NoteTypes -> handleNotesTask(task, outcome)
          [] OTHER -> [statusCode |-> 400,
                       error |-> "Unrecognized or unimplemented task type"]]

\* the reply Dispatcher::start sends for a task it drops
BusyReplyEcho(task) == task

BusyReply(task) ==
    F_Task("ERROR", [error |-> "Server busy! Request dropped, please try again later."],
           task.id)

\* the reply processTaskAndWaitForResponse makes up when its deadline passes
TimeoutTask == F_Task("ERROR", [status |-> "error", message |-> "Response timeout"], 0)

(* ---- state ------------------------------------------------------------ *)
VARIABLES
    rdwr,         \* TRUE: the FIFOs are opened O_RDWR; FALSE: O_RDONLY / O_WRONLY
    numThreads,   \* the numThreads argument of Dispatcher(...)
    limit,        \* number of records the test peer is going to write
    menu,         \* the records the test peer may write (type_ and data_)
    backend,      \* the outcomes auth:: and DAL:: calls may have
    served,       \* the routes the HTTP clients ask for
    opened,       \* the <<fifo, end>> for which open(2) has been called
    e2c,          \* FIFO GW2DP: records written by the Edge, unread by the Core
    c2e,          \* FIFO DP2GW: records written by the Core, unread by the Edge
    edgePc,       \* position of the Edge's main thread
    edgeHs,       \* the F_Task the Gateway constructor read (handshake)
    routes,       \* initializeRoutes has run
    hpc,          \* position of the HTTP handler of each request
    hres,         \* what processTaskAndWaitForResponse returned to it
    hroute,       \* the route each request came in on
    res,          \* the httplib::Response of each request
    corePc,       \* position of the Core's main thread (constructor, start)
    dtask,        \* the F_Task the Core's main thread read last
    running_,     \* Dispatcher::running_
    threadPool_,  \* threadPool_.size()
    taskQueue_,   \* the vector under the priority queue
    wpc,          \* position of each worker thread
    wtask,        \* the task (then the response) a worker holds
    enqSeq,       \* history: number of pushes so far
    nSent,        \* history: records written on DP2GW, per request tag
    dread,        \* history: tags of the non-SYSKILL records the loop has read
    dropped,      \* history: request tags dropped as server busy
    late,         \* history: request tags written on GW2DP after SYSKILL
    pushed,       \* number of records the test peer has written
    sentType,     \* history: type_ of the record written on GW2DP, per tag
    expired,      \* history: requests that timed out before their reply was written
    stray,        \* bytes of an incomplete record at the end of GW2DP
    peerClosed,   \* the peer of the Core has closed its write end of GW2DP
    thrown,       \* what() of the exception that left Dispatcher::start, or ""
    shortRead,    \* history: the read that filled dtask returned false
    hthrew,       \* what() of the exception that left processTaskAndWaitForResponse
    taskMutex_,   \* the thread that holds Dispatcher::taskMutex_, or "free"
    users,        \* the users table: password_hash of each username, if any
    lastSet,      \* history: the password last set for each username
    authRet,      \* the last call into auth:: and what it returned
    files,        \* the files DAL::readFile and DAL::writeFile work on
    written,      \* history: the data of the last writeFile of each path
    fileRet,      \* the last call of readFile or writeFile and what it returned
    fileMutexMap, \* the mutex of each file path (its number), 0 if it has none yet
    fileMutexes,  \* the owner of each std::mutex that getFileMutex has made
    globalFileMutexMapLock,  \* the owner of the mutex that guards fileMutexMap
    io,           \* each thread's call into the file I/O of DAL::, and its handler
    disk,         \* the JSON files of the classes
    tokenStore,   \* the tokens table: the tokens DAL::tokenExists finds
    clock,        \* the time jwt::create stamps a token with
    issued,       \* the tokens that login and refreshToken have returned so far
    authCall,     \* the last call of login or refreshToken: its argument and result
    taskQueue,    \* DispatcherImpl::taskQueue
    stopFlag,     \* DispatcherImpl::stopFlag
    specialTaskActive,  \* DispatcherImpl::specialTaskActive
    threads,      \* DispatcherImpl::threads: position and task of each worker
    caller        \* the thread that calls DispatcherImpl::addTask and stop

vars == <<rdwr, numThreads, limit, menu, backend, served, opened, e2c, c2e, edgePc, edgeHs,
          routes, hpc, hres, hroute, res,
          corePc, dtask, running_, threadPool_, taskQueue_, wpc, wtask,
          enqSeq, nSent, dread, dropped, late, pushed, sentType, expired,
          stray, peerClosed, thrown, shortRead, hthrew, taskMutex_,
          users, lastSet, authRet, files, written, fileRet,
          fileMutexMap, fileMutexes, globalFileMutexMapLock, io, disk,
          tokenStore, clock, issued, authCall,
          taskQueue, stopFlag, specialTaskActive, threads, caller>>

edgeVars == <<edgePc, edgeHs, routes, hpc, hres, hroute, res, late, pushed, sentType,
              expired>>
coreVars == <<corePc, dtask, running_, threadPool_, taskQueue_, wpc, wtask,
              enqSeq, dread, dropped>>
cfgVars == <<rdwr, numThreads, limit, menu, backend, served>>
readVars == <<stray, peerClosed, thrown, shortRead>>
authVars == <<users, lastSet, authRet>>
dalVars == <<files, written, fileRet>>
ioVars == <<fileMutexMap, fileMutexes, globalFileMutexMapLock, io, disk>>
tokVars == <<tokenStore, clock, issued, authCall>>
implVars == <<taskQueue, stopFlag, specialTaskActive, threads, caller>>
extVars == <<ioVars, tokVars, implVars>>
auxVars == <<readVars, hthrew, taskMutex_, authVars, dalVars, extVars>>

GW2DP == "GW2DP"
DP2GW == "DP2GW"

(* ---- the values of the library state ---------------------------------- *)
\* usernames and passwords the callers of auth:: use
Usernames == {"", "alice", "bob"}
Passwords == {"secret", "newsecret"}

\* std::nullopt of getUserByUsername, as a row of the table
NoUser == [found |-> FALSE, password_hash |-> <<>>]

\* no call yet
NoCall == [op |-> "none"]

\* paths and contents the callers of readFile and writeFile use
Paths == {"test_file.txt", "note.txt"}
Contents == {<<>>, <<"H", "i">>, <<"x">>}

\* a path that names no file, and a file with its bytes
NoFile == [exists |-> FALSE, bytes |-> <<>>]
File(bytes) == [exists |-> TRUE, bytes |-> bytes]

\* the owner of a std::mutex: nobody, the Core's main thread, or a worker
Unowned == <<>>
MainThread == <<"main">>
WorkerThread(w) == <<"worker", w>>

\* the JSON files of two classes: class_c1.json holds its own path under
\* "file_path", the key DAL::writeJsonFile writes to; class_c2.json holds
\* what the POST_ME_CLASSES case makes up, which has no such key
ClassPaths == {"class_c1.json", "class_c2.json"}

OnDisk(path) ==
    IF path = "class_c1.json"
    THEN [file_path |-> path, name |-> "Algebra", bigNote |-> "old text",
          bigNoteUpdated |-> "2025-03-01T09:00:00"]
    ELSE [name |-> "Biology", bigNote |-> "old text",
          bigNoteUpdated |-> "2025-03-01T09:00:00"]

\* the threads that call into the file I/O of DAL::
IoThreads == 0 .. 1

\* a thread that is in no call of DAL:: and in no handler
NotCalling ==
    [pc |-> "idle", op |-> "none", path |-> "none", data |-> Null, mtx |-> 0,
     ret |-> Null, threw |-> "", step |-> "none", edit |-> Null, reply |-> 0]

\* the worker threads of the DispatcherImpl of test.cc
ImplWorkers == 0 .. (HarnessThreads - 1)

\* a worker of DispatcherImpl::threads before createThreads, and the
\* thread that calls addTask when it is in no call
NotStarted == [pc |-> "none", type |-> "NONE"]
NotAdding == [pc |-> "idle", type |-> "NONE", added |-> 0]

\* nothing has been read short, thrown, locked, registered or written
Untouched ==
    /\ stray = 0
    /\ peerClosed = FALSE
    /\ thrown = ""
    /\ shortRead = FALSE
    /\ hthrew = [r \in Requests |-> ""]
    /\ taskMutex_ = Unowned
    /\ users = [u \in Usernames |-> NoUser]
    /\ lastSet = [u \in Usernames |-> "none"]
    /\ authRet = NoCall
    /\ files = [p \in Paths |-> NoFile]
    /\ written = [p \in Paths |-> NoFile]
    /\ fileRet = NoCall
    /\ fileMutexMap = [p \in ClassPaths |-> 0]
    /\ fileMutexes = <<>>
    /\ globalFileMutexMapLock = Unowned
    /\ io = [t \in IoThreads |-> NotCalling]
    /\ disk = [p \in ClassPaths |-> OnDisk(p)]
    /\ tokenStore = {}
    /\ clock = 0
    /\ issued = {}
    /\ authCall = [op |-> "none", token |-> [sub |-> 0, iat |-> 0, sig |-> "none"],
                   ret |-> [sub |-> 0, iat |-> 0, sig |-> "none"]]
    /\ taskQueue = <<>>
    /\ stopFlag = FALSE
    /\ specialTaskActive = FALSE
    /\ threads = [w \in ImplWorkers |-> NotStarted]
    /\ caller = NotAdding

\* main() has forked; neither process has opened a channel yet
Forked ==
    /\ rdwr \in BOOLEAN
    /\ numThreads \in 1 .. MaxThreads
    /\ limit = 0
    /\ menu = {}
    /\ backend = {"ok"}
    /\ opened = {}
    /\ e2c = <<>>
    /\ c2e = <<>>
    /\ edgePc = "open_in"
    /\ edgeHs = NoTask
    /\ routes = FALSE
    /\ hpc = [r \in Requests |-> "idle"]
    /\ hres = [r \in Requests |-> NoTask]
    /\ hroute = [r \in Requests |-> "none"]
    /\ res = [r \in Requests |-> NoResponse]
    /\ corePc = "open_in"
    /\ dtask = NoTask
    /\ running_ = TRUE
    /\ threadPool_ = 0
    /\ taskQueue_ = <<>>
    /\ wpc = [w \in Workers |-> "none"]
    /\ wtask = [w \in Workers |-> NoTask]
    /\ enqSeq = 0
    /\ nSent = [i \in Tags |-> 0]
    /\ dread = {}
    /\ dropped = {}
    /\ late = {}
    /\ pushed = 0
    /\ sentType = [i \in Tags |-> "NONE"]
    /\ expired = {}
    /\ Untouched

\* the clients ask for any of the routes
Init ==
    /\ served = Routes
    /\ Forked

\* the clients ask for one route only, with a body that parses or not
RegisterInit ==
    /\ served = JsonRoutes
    /\ Forked

\* the clients ask for the routes under /api/auth
AuthRouteInit ==
    /\ served = AuthRoutes
    /\ Forked

(* ---- FifoChannel -------------------------------------------------------*)
\* open(2) of a FIFO: O_RDWR never blocks; O_RDONLY blocks until the FIFO
\* is (being) opened for writing, O_WRONLY until it is (being) opened for
\* reading
OtherEnd(end) == IF end = "rd" THEN "wr" ELSE "rd"

OpenReturns(fifo, end) == rdwr \/ <<fifo, OtherEnd(end)>> \in opened

\* FifoChannel::send: one write(2) of a whole record
send(ch, task) == Append(ch, task)

\* sizeof(F_Task) in bytes: two unsigned, a bool, a json and the type_
sizeof_F_Task == 40

\* FifoChannel::send after ssize_t n = ::write(fd_, &task, sizeof(F_Task)):
\* what it throws, if anything, and what it returns
sendReturns(n) ==
    IF n = -1
    THEN [threw |-> "FIFO Write Error.", ret |-> FALSE]
    ELSE IF n # sizeof_F_Task
    THEN [threw |-> "Incomplete write to FIFO.", ret |-> FALSE]
    ELSE [threw |-> "", ret |-> n = sizeof_F_Task]

\* FifoChannel::read after ssize_t n = ::read(fd_, &task, sizeof(F_Task)):
\* what it throws, if anything, and what it returns
readZeroIsShort(n) ==
    IF n = -1
    THEN [threw |-> "FIFO Read Error.", ret |-> FALSE]
    ELSE [threw |-> "", ret |-> n = sizeof_F_Task]

read(n) ==
    IF n = 0
    THEN [threw |-> "No writers attached to pipe.", ret |-> FALSE]
    ELSE IF n = -1
    THEN [threw |-> "FIFO Read Error.", ret |-> FALSE]
    ELSE [threw |-> "", ret |-> n = sizeof_F_Task]

\* nSent after a write on DP2GW
Sent(task) == [nSent EXCEPT ![task.id] = @ + 1]

(* ---- main.cc: the two processes open their channels ------------------- *)
\* where each constructor goes after each of its steps
CtorOrderThreadsFirst == <<"mk_threads", "hs_read", "hs_send">>

CtorOrder == <<"hs_read", "hs_send", "mk_threads">>

GatewayCtorOrder == <<"hs_send", "hs_read", "routes">>

StepAfter(order, pc, last) ==
    LET i == CHOOSE k \in 1 .. Len(order) : order[k] = pc
    IN IF i = Len(order) THEN last ELSE order[i + 1]

CoreAfter(pc) == StepAfter(CtorOrder, pc, "loop")
EdgeAfter(pc) == StepAfter(GatewayCtorOrder, pc, "listen")

\* child: ipc::FifoChannel in(GW2DP, O_RDONLY)
CoreOpenIn ==
    /\ corePc = "open_in"
    /\ opened' = opened \cup {<<GW2DP, "rd">>}
    /\ corePc' = "open_in_wait"
    /\ UNCHANGED <<cfgVars, auxVars, e2c, c2e, edgeVars, dtask, running_, threadPool_,
                   taskQueue_, wpc, wtask, enqSeq, nSent, dread, dropped>>

CoreOpenInReturn ==
    /\ corePc = "open_in_wait"
    /\ OpenReturns(GW2DP, "rd")
    /\ corePc' = "open_out"
    /\ UNCHANGED <<cfgVars, auxVars, opened, e2c, c2e, edgeVars, dtask, running_, threadPool_,
                   taskQueue_, wpc, wtask, enqSeq, nSent, dread, dropped>>

\* child: ipc::FifoChannel out(DP2GW, O_WRONLY)
CoreOpenOut ==
    /\ corePc = "open_out"
    /\ opened' = opened \cup {<<DP2GW, "wr">>}
    /\ corePc' = "open_out_wait"
    /\ UNCHANGED <<cfgVars, auxVars, e2c, c2e, edgeVars, dtask, running_, threadPool_,
                   taskQueue_, wpc, wtask, enqSeq, nSent, dread, dropped>>

CoreOpenOutReturn ==
    /\ corePc = "open_out_wait"
    /\ OpenReturns(DP2GW, "wr")
    /\ corePc' = CtorOrder[1]
    /\ UNCHANGED <<cfgVars, auxVars, opened, e2c, c2e, edgeVars, dtask, running_, threadPool_,
                   taskQueue_, wpc, wtask, enqSeq, nSent, dread, dropped>>

\* parent: ipc::FifoChannel in(DP2GW, O_RDONLY)
EdgeOpenIn ==
    /\ edgePc = "open_in"
    /\ opened' = opened \cup {<<DP2GW, "rd">>}
    /\ edgePc' = "open_in_wait"
    /\ UNCHANGED <<cfgVars, auxVars, e2c, c2e, edgeHs, routes, hpc, hres, hroute, res, late,
                   pushed, sentType, expired, coreVars, nSent>>

EdgeOpenInReturn ==
    /\ edgePc = "open_in_wait"
    /\ OpenReturns(DP2GW, "rd")
    /\ edgePc' = "open_out"
    /\ UNCHANGED <<cfgVars, auxVars,
                   opened, e2c, c2e, edgeHs, routes, hpc, hres, hroute, res, late,
                   pushed, sentType, expired, coreVars, nSent>>

\* parent: ipc::FifoChannel out(GW2DP, O_WRONLY)
EdgeOpenOut ==
    /\ edgePc = "open_out"
    /\ opened' = opened \cup {<<GW2DP, "wr">>}
    /\ edgePc' = "open_out_wait"
    /\ UNCHANGED <<cfgVars, auxVars, e2c, c2e, edgeHs, routes, hpc, hres, hroute, res, late,
                   pushed, sentType, expired, coreVars, nSent>>

EdgeOpenOutReturn ==
    /\ edgePc = "open_out_wait"
    /\ OpenReturns(GW2DP, "wr")
    /\ edgePc' = GatewayCtorOrder[1]
    /\ UNCHANGED <<cfgVars, auxVars,
                   opened, e2c, c2e, edgeHs, routes, hpc, hres, hroute, res, late,
                   pushed, sentType, expired, coreVars, nSent>>

(* ---- Gateway (http_gateway.cc) ---------------------------------------- *)
\* Gateway::Gateway: out_.send(F_Task(F_TaskType::PING))
GatewayPing ==
    /\ edgePc = "hs_send"
    /\ e2c' = send(e2c, F_Task("PING", Null, 0))
    /\ edgePc' = EdgeAfter("hs_send")
    /\ UNCHANGED <<cfgVars, auxVars, opened, c2e, edgeHs, routes, hpc, hres, hroute, res, late,
                   pushed, sentType, expired, coreVars, nSent>>

\* Gateway::Gateway: in_.read(task), blocking
GatewayReadPong ==
    /\ edgePc = "hs_read"
    /\ Len(c2e) > 0
    /\ edgeHs' = Head(c2e)
    /\ c2e' = Tail(c2e)
    /\ edgePc' = EdgeAfter("hs_read")
    /\ UNCHANGED <<cfgVars, auxVars, opened, e2c, routes, hpc, hres, hroute, res, late, pushed,
                   sentType, expired, coreVars, nSent>>

\* Gateway::Gateway: initializeRoutes(svr)
GatewayInitializeRoutes ==
    /\ edgePc = "routes"
    /\ routes' = TRUE
    /\ edgePc' = EdgeAfter("routes")
    /\ UNCHANGED <<cfgVars, auxVars,
                   opened, e2c, c2e, edgeHs, hpc, hres, hroute, res, late, pushed,
                   sentType, expired, coreVars, nSent>>

\* Gateway::listen: the server thread starts accepting connections
GatewayListen ==
    /\ edgePc = "listen"
    /\ edgePc' = "serving"
    /\ UNCHANGED <<cfgVars, auxVars,
                   opened, e2c, c2e, edgeHs, routes, hpc, hres, hroute, res, late,
                   pushed, sentType, expired, coreVars, nSent>>

\* the server accepts from listen() until svr.stop()
Accepting == edgePc \in {"serving", "stop"}

\* a route handler builds its task and enters processTaskAndWaitForResponse:
\* out_.send(task).  Requests are numbered in the order they come in.
HandlerSend(r, route) ==
    /\ Accepting
    /\ routes
    /\ route \in served
    /\ hpc[r] = "idle"
    /\ \A q \in Requests : q < r => hpc[q] # "idle"
    /\ e2c' = send(e2c, RouteTask(route, r))
    /\ hpc' = [hpc EXCEPT ![r] = "poll"]
    /\ hroute' = [hroute EXCEPT ![r] = route]
    /\ sentType' = [sentType EXCEPT ![r] = RouteTask(route, r).type]
    /\ late' = IF edgePc = "stop" THEN late \cup {r} ELSE late
    /\ UNCHANGED <<cfgVars, auxVars,
                   opened, c2e, edgePc, edgeHs, routes, hres, res, pushed, expired,
                   coreVars, nSent>>

\* a route handler whose json::parse(req.body) throws: the catch block
\* answers and the handler returns
HandlerParseError(r, route) ==
    /\ Accepting
    /\ routes
    /\ route \in served
    /\ hpc[r] = "idle"
    /\ \A q \in Requests : q < r => hpc[q] # "idle"
    /\ hpc' = [hpc EXCEPT ![r] = "done"]
    /\ hroute' = [hroute EXCEPT ![r] = route]
    /\ res' = [res EXCEPT ![r] = CatchResponse("parse error")]
    /\ UNCHANGED <<cfgVars, auxVars,
                   opened, e2c, c2e, edgePc, edgeHs, routes, hres, late, pushed,
                   sentType, expired, coreVars, nSent>>

\* processTaskAndWaitForResponse: the task it returns if (!sent)
IpcFailureTask ==
    F_Task("ERROR", [status |-> "error", message |-> "IPC communication failure"], 0)

\* what the client gets when an exception leaves a route's lambda: register
\* and login catch it; /ping-core has no try block and httplib answers 500
ThrowResponse(route, what) ==
    IF route = "/ping-core"
    THEN [status |-> 500, body |-> Null]
    ELSE CatchResponse(what)

\* no process has GW2DP open for reading: the Edge has it open O_WRONLY
\* and its peer has exited or closed its end
NoReader ==
    /\ ~rdwr
    /\ \/ corePc = "done"
       \/ corePc = "peer" /\ peerClosed

\* a route handler enters processTaskAndWaitForResponse and ::write fails
\* with EPIPE, as nothing has GW2DP open for reading (httplib::Server
\* ignores SIGPIPE)
HandlerSendFails(r, route) ==
    /\ Accepting
    /\ routes
    /\ route \in served
    /\ hpc[r] = "idle"
    /\ \A q \in Requests : q < r => hpc[q] # "idle"
    /\ NoReader
    /\ hroute' = [hroute EXCEPT ![r] = route]
    /\ hpc' = [hpc EXCEPT ![r] = "done"]
    /\ IF sendReturns(-1).threw # ""
       THEN /\ hthrew' = [hthrew EXCEPT ![r] = sendReturns(-1).threw]
            /\ res' = [res EXCEPT ![r] = ThrowResponse(route, sendReturns(-1).threw)]
            /\ UNCHANGED hres
       ELSE /\ ~sendReturns(-1).ret
            /\ hres' = [hres EXCEPT ![r] = IpcFailureTask]
            /\ res' = [res EXCEPT ![r] = RouteResponse(route, IpcFailureTask)]
            /\ UNCHANGED hthrew
    /\ UNCHANGED <<cfgVars, extVars, readVars, taskMutex_, authVars, dalVars, opened, e2c, c2e,
                   edgePc, edgeHs, routes, late, pushed, sentType, expired, coreVars,
                   nSent>>

\* POST /api/auth/logout: the lambda logs the request and returns; httplib
\* answers 200 with an empty body
HandlerLogout(r) ==
    /\ Accepting
    /\ routes
    /\ "/api/auth/logout" \in served
    /\ hpc[r] = "idle"
    /\ \A q \in Requests : q < r => hpc[q] # "idle"
    /\ hpc' = [hpc EXCEPT ![r] = "done"]
    /\ hroute' = [hroute EXCEPT ![r] = "/api/auth/logout"]
    /\ res' = [res EXCEPT ![r] = [status |-> 200, body |-> Null]]
    /\ UNCHANGED <<cfgVars, auxVars, opened, e2c, c2e, edgePc, edgeHs, routes, hres, late,
                   pushed, sentType, expired, coreVars, nSent>>

\* processTaskAndWaitForResponse: the deadline has passed at the top of the
\* loop; the route answers with what it makes of the timeout task
HandlerTimeout(r) ==
    /\ hpc[r] = "poll"
    /\ hres' = [hres EXCEPT ![r] = TimeoutTask]
    /\ res' = [res EXCEPT ![r] = RouteResponse(hroute[r], TimeoutTask)]
    /\ hpc' = [hpc EXCEPT ![r] = "done"]
    /\ expired' = IF nSent[r] = 0 THEN expired \cup {r} ELSE expired
    /\ UNCHANGED <<cfgVars, auxVars,
                   opened, e2c, c2e, edgePc, edgeHs, routes, hroute, late, pushed,
                   sentType, coreVars, nSent>>

\* processTaskAndWaitForResponse: in_.hasData(10) is true
HandlerHasData(r) ==
    /\ hpc[r] = "poll"
    /\ Len(c2e) > 0
    /\ hpc' = [hpc EXCEPT ![r] = "read"]
    /\ UNCHANGED <<cfgVars, auxVars,
                   opened, e2c, c2e, edgePc, edgeHs, routes, hres, hroute, res,
                   late, pushed, sentType, expired, coreVars, nSent>>

\* processTaskAndWaitForResponse: in_.read(response), blocking; return
\* response; the route answers with what it makes of it
HandlerRead(r) ==
    /\ hpc[r] = "read"
    /\ Len(c2e) > 0
    /\ hres' = [hres EXCEPT ![r] = Head(c2e)]
    /\ res' = [res EXCEPT ![r] = RouteResponse(hroute[r], Head(c2e))]
    /\ c2e' = Tail(c2e)
    /\ hpc' = [hpc EXCEPT ![r] = "done"]
    /\ UNCHANGED <<cfgVars, auxVars, opened, e2c, edgePc, edgeHs, routes, hroute, late, pushed,
                   sentType, expired, coreVars, nSent>>

\* main.cc, "exit": gateway.signal_shutdown() sends SYSKILL
SignalShutdown ==
    /\ edgePc = "serving"
    /\ e2c' = send(e2c, F_Task("SYSKILL", Null, 0))
    /\ edgePc' = "stop"
    /\ UNCHANGED <<cfgVars, auxVars, opened, c2e, edgeHs, routes, hpc, hres, hroute, res, late,
                   pushed, sentType, expired, coreVars, nSent>>

\* Gateway::stop: svr.stop(), no connection is accepted from here on
GatewayStop ==
    /\ edgePc = "stop"
    /\ edgePc' = "join"
    /\ UNCHANGED <<cfgVars, auxVars,
                   opened, e2c, c2e, edgeHs, routes, hpc, hres, hroute, res, late,
                   pushed, sentType, expired, coreVars, nSent>>

\* Gateway::stop: serverThread.join() returns once the handlers have returned
GatewayJoin ==
    /\ edgePc = "join"
    /\ \A r \in Requests : hpc[r] \in {"idle", "done"}
    /\ edgePc' = "wait_child"
    /\ UNCHANGED <<cfgVars, auxVars,
                   opened, e2c, c2e, edgeHs, routes, hpc, hres, hroute, res, late,
                   pushed, sentType, expired, coreVars, nSent>>

\* main.cc: wait(nullptr) returns when the child has exited
EdgeWaitChild ==
    /\ edgePc = "wait_child"
    /\ corePc = "done"
    /\ edgePc' = "closed"
    /\ UNCHANGED <<cfgVars, auxVars,
                   opened, e2c, c2e, edgeHs, routes, hpc, hres, hroute, res, late,
                   pushed, sentType, expired, coreVars, nSent>>

\* SIGINT arrives at the Edge process: the handler installed by
\* install_signal_handler unlinks the FIFOs and calls std::_Exit(0).  The
\* process, its server thread and its handlers are gone; nothing is written.
Sigint ==
    /\ edgePc \notin {"closed", "sigint_exit"}
    /\ edgePc' = "sigint_exit"
    /\ hpc' = [r \in Requests |->
                 IF hpc[r] \in {"idle", "done"} THEN hpc[r] ELSE "killed"]
    /\ UNCHANGED <<cfgVars, auxVars, opened, e2c, c2e, edgeHs, routes, hres, hroute, res, late,
                   pushed, sentType, expired, coreVars, nSent>>

(* ---- Dispatcher (dispatcher.cc) --------------------------------------- *)
Waiting == {w \in Workers : wpc[w] = "waiting"}

\* taskCV_.notify_all(): every waiter has to take the mutex and test again
notify_all == [w \in Workers |-> IF wpc[w] = "waiting" THEN "lock" ELSE wpc[w]]

\* taskCV_.notify_one(): the same for one waiter, if there is one
notify_one(w) == [wpc EXCEPT ![w] = "lock"]

\* Dispatcher::Dispatcher: in_.read(task), blocking
DispatcherReadPing ==
    /\ corePc = "hs_read"
    /\ Len(e2c) > 0
    /\ dtask' = Head(e2c)
    /\ e2c' = Tail(e2c)
    /\ corePc' = CoreAfter("hs_read")
    /\ UNCHANGED <<cfgVars, auxVars, opened, c2e, edgeVars, running_, threadPool_,
                   taskQueue_, wpc, wtask, enqSeq, nSent, dread, dropped>>

\* Dispatcher::Dispatcher: out_.send(F_Task(F_TaskType::PING))
DispatcherPong ==
    /\ corePc = "hs_send"
    /\ c2e' = send(c2e, F_Task("PING", Null, 0))
    /\ nSent' = Sent(F_Task("PING", Null, 0))
    /\ corePc' = CoreAfter("hs_send")
    /\ UNCHANGED <<cfgVars, auxVars, opened, e2c, edgeVars, dtask, running_, threadPool_,
                   taskQueue_, wpc, wtask, enqSeq, dread, dropped>>

\* Dispatcher::createThreadPool
createThreadPool ==
    /\ corePc = "mk_threads"
    /\ threadPool_' = numThreads
    /\ wpc' = [w \in Workers |-> IF w < numThreads THEN "top" ELSE "none"]
    /\ corePc' = CoreAfter("mk_threads")
    /\ UNCHANGED <<cfgVars, auxVars, opened, e2c, c2e, edgeVars, dtask, running_,
                   taskQueue_, wtask, enqSeq, nSent, dread, dropped>>

\* Dispatcher::start: while (running_) { in_.read(task); ...
DispatcherRead ==
    /\ corePc = "loop"
    /\ IF running_
       THEN /\ Len(e2c) > 0
            /\ read(sizeof_F_Task).threw = ""
            /\ dtask' = Head(e2c)
            /\ shortRead' = ~read(sizeof_F_Task).ret
            /\ e2c' = Tail(e2c)
            /\ dread' = IF Head(e2c).type = "SYSKILL" THEN dread
                         ELSE dread \cup {Head(e2c).id}
            /\ corePc' = "dispatch"
       ELSE /\ corePc' = "join"
            /\ UNCHANGED <<dtask, shortRead, e2c, dread>>
    /\ UNCHANGED <<cfgVars, extVars, stray, peerClosed, thrown, hthrew, taskMutex_, authVars,
                   dalVars, opened, c2e, edgeVars, running_, threadPool_,
                   taskQueue_, wpc, wtask, enqSeq, nSent, dropped>>

\* the type_ a task may hold when the read did not fill it: F_Task() {}
\* leaves type_ uninitialized and type_ is the last member of the record
GarbageTypes == {"SYSKILL", "PING", "NONE"}

\* Dispatcher::start: in_.read(task) when ::read delivers the bytes of an
\* incomplete record; the loop does not look at what read returned
DispatcherReadShort ==
    /\ corePc = "loop"
    /\ running_
    /\ Len(e2c) = 0
    /\ stray > 0
    /\ read(stray).threw = ""
    /\ shortRead' = ~read(stray).ret
    /\ \E type \in GarbageTypes : dtask' = F_Task(type, Null, 0)
    /\ stray' = 0
    /\ corePc' = "dispatch"
    /\ UNCHANGED <<cfgVars, extVars, peerClosed, thrown, hthrew, taskMutex_, authVars, dalVars,
                   opened, e2c, c2e, edgeVars, running_, threadPool_, taskQueue_,
                   wpc, wtask, enqSeq, nSent, dread, dropped>>

\* Dispatcher::start: in_.read(task) when the FIFO is empty and no process
\* has it open for writing: ::read returns 0.  Nothing in start catches
\* what read throws.
DispatcherReadEof ==
    /\ corePc = "loop"
    /\ running_
    /\ Len(e2c) = 0
    /\ stray = 0
    /\ peerClosed
    /\ ~rdwr
    /\ IF read(0).threw # ""
       THEN /\ thrown' = read(0).threw
            /\ corePc' = "threw"
            /\ UNCHANGED <<dtask, shortRead>>
       ELSE /\ shortRead' = ~read(0).ret
            /\ \E type \in GarbageTypes : dtask' = F_Task(type, Null, 0)
            /\ corePc' = "dispatch"
            /\ UNCHANGED thrown
    /\ UNCHANGED <<cfgVars, extVars, stray, peerClosed, hthrew, taskMutex_, authVars, dalVars,
                   opened, e2c, c2e, edgeVars, running_, threadPool_, taskQueue_,
                   wpc, wtask, enqSeq, nSent, dread, dropped>>

\* Dispatcher::start: if (task.type_ == F_TaskType::SYSKILL)
IsKillNever(task) == FALSE

IsKill(task) == task.type = "SYSKILL"

\* ... { lock; running_ = false; taskCV_.notify_all(); } break;
DispatcherKill ==
    /\ corePc = "dispatch"
    /\ IsKill(dtask)
    /\ running_' = FALSE
    /\ wpc' = notify_all
    /\ corePc' = "join"
    /\ UNCHANGED <<cfgVars, auxVars, opened, e2c, c2e, edgeVars, dtask, threadPool_,
                   taskQueue_, wtask, enqSeq, nSent, dread, dropped>>

\* Dispatcher::start: if (taskQueue_.size() >= threadPool_.size())
QueueFullOffByOne == Len(taskQueue_) > threadPool_

QueueFull == Len(taskQueue_) >= threadPool_

\* Dispatcher::start: the block under taskMutex_ that enqueues or drops
DispatcherAdmit ==
    /\ corePc = "dispatch"
    /\ ~IsKill(dtask)
    /\ IF QueueFull
       THEN /\ corePc' = "busy_send"
            /\ dropped' = dropped \cup {dtask.id}
            /\ UNCHANGED <<taskQueue_, enqSeq, wpc>>
       ELSE /\ taskQueue_' = QueuePush(taskQueue_, PrioritizedTask(dtask, enqSeq + 1))
            /\ enqSeq' = enqSeq + 1
            /\ IF Waiting = {}
               THEN wpc' = wpc
               ELSE \E w \in Waiting : wpc' = notify_one(w)
            /\ corePc' = "loop"
            /\ UNCHANGED dropped
    /\ UNCHANGED <<cfgVars, auxVars, opened, e2c, c2e, edgeVars, dtask, running_, threadPool_,
                   wtask, nSent, dread>>

\* Dispatcher::start: after lock.unlock(), out_.send(response) of the ERROR
DispatcherBusySend ==
    /\ corePc = "busy_send"
    /\ c2e' = send(c2e, BusyReply(dtask))
    /\ nSent' = Sent(BusyReply(dtask))
    /\ corePc' = "loop"
    /\ UNCHANGED <<cfgVars, auxVars, opened, e2c, edgeVars, dtask, running_, threadPool_,
                   taskQueue_, wpc, wtask, enqSeq, dread, dropped>>

\* Dispatcher::start: the join loop, then return
DispatcherJoin ==
    /\ corePc = "join"
    /\ \A w \in Workers : w < threadPool_ => wpc[w] = "exited"
    /\ corePc' = "done"
    /\ UNCHANGED <<cfgVars, auxVars, opened, e2c, c2e, edgeVars, dtask, running_, threadPool_,
                   taskQueue_, wpc, wtask, enqSeq, nSent, dread, dropped>>

(* ---- Dispatcher::processInboundTasks, one worker thread ---------------- *)
\* while (running_)
WorkerLoop(w) ==
    /\ wpc[w] = "top"
    /\ wpc' = [wpc EXCEPT ![w] = IF running_ THEN "lock" ELSE "exited"]
    /\ UNCHANGED <<cfgVars, auxVars, opened, e2c, c2e, edgeVars, corePc, dtask, running_,
                   threadPool_, taskQueue_, wtask, enqSeq, nSent, dread, dropped>>

\* the predicate of taskCV_.wait
WaitPredNoShutdown == Len(taskQueue_) > 0

WaitPred == Len(taskQueue_) > 0 \/ ~running_

\* the block under taskMutex_: wait, or leave, or pop the top task
WorkerLock(w) ==
    /\ wpc[w] = "lock"
    /\ IF ~WaitPred
       THEN /\ wpc' = [wpc EXCEPT ![w] = "waiting"]
            /\ UNCHANGED <<taskQueue_, wtask>>
       ELSE IF ~running_ /\ Len(taskQueue_) = 0
       THEN /\ wpc' = [wpc EXCEPT ![w] = "exited"]
            /\ UNCHANGED <<taskQueue_, wtask>>
       ELSE IF Len(taskQueue_) > 0
       THEN /\ wtask' = [wtask EXCEPT ![w] = [QueueTop(taskQueue_).task EXCEPT !.threadId = w]]
            /\ taskQueue_' = QueuePop(taskQueue_)
            /\ wpc' = [wpc EXCEPT ![w] = "process"]
       ELSE /\ wpc' = [wpc EXCEPT ![w] = "top"]
            /\ UNCHANGED <<taskQueue_, wtask>>
    /\ UNCHANGED <<cfgVars, auxVars, opened, e2c, c2e, edgeVars, corePc, dtask, running_,
                   threadPool_, enqSeq, nSent, dread, dropped>>

\* a waiter may wake without a notification
WorkerSpuriousWake(w) ==
    /\ wpc[w] = "waiting"
    /\ wpc' = [wpc EXCEPT ![w] = "lock"]
    /\ UNCHANGED <<cfgVars, auxVars, opened, e2c, c2e, edgeVars, corePc, dtask, running_,
                   threadPool_, taskQueue_, wtask, enqSeq, nSent, dread, dropped>>

\* outside the lock: F_Task response = processTask(task); out_.send(response)
WorkerProcess(w) ==
    /\ wpc[w] = "process"
    /\ \E outcome \in backend :
          /\ wtask' = [wtask EXCEPT ![w] = processTask(wtask[w], outcome)]
          /\ c2e' = send(c2e, processTask(wtask[w], outcome))
          /\ nSent' = Sent(processTask(wtask[w], outcome))
    /\ wpc' = [wpc EXCEPT ![w] = "top"]
    /\ UNCHANGED <<cfgVars, auxVars, opened, e2c, edgeVars, corePc, dtask, running_,
                   threadPool_, taskQueue_, enqSeq, dread, dropped>>

(* ---- the system ------------------------------------------------------- *)
EdgeMain ==
    \/ EdgeOpenIn \/ EdgeOpenInReturn \/ EdgeOpenOut \/ EdgeOpenOutReturn
    \/ GatewayPing \/ GatewayReadPong \/ GatewayInitializeRoutes \/ GatewayListen

EdgeShutdown ==
    \/ SignalShutdown \/ GatewayStop \/ GatewayJoin \/ EdgeWaitChild

Handler(r) ==
    \/ \E route \in Routes : HandlerSend(r, route)
    \/ \E route \in JsonRoutes : HandlerParseError(r, route)
    \/ HandlerTimeout(r) \/ HandlerHasData(r) \/ HandlerRead(r)

CoreOpen ==
    \/ CoreOpenIn \/ CoreOpenInReturn \/ CoreOpenOut \/ CoreOpenOutReturn

CoreMain ==
    \/ DispatcherReadPing \/ DispatcherPong \/ createThreadPool
    \/ DispatcherRead \/ DispatcherKill \/ DispatcherAdmit \/ DispatcherBusySend
    \/ DispatcherJoin

Worker(w) == WorkerLoop(w) \/ WorkerLock(w) \/ WorkerProcess(w)

Next ==
    \/ EdgeMain
    \/ EdgeShutdown
    \/ \E r \in Requests : Handler(r)
    \/ CoreOpen
    \/ CoreMain
    \/ \E w \in Workers : Worker(w)
    \/ \E w \in Workers : WorkerSpuriousWake(w)

Spec == Init /\ [][Next]_vars

RegisterSpec == RegisterInit /\ [][Next]_vars

\* the same system with the login and logout routes
AuthRouteNext ==
    \/ Next
    \/ \E r \in Requests : HandlerSend(r, "/api/auth/login")
    \/ \E r \in Requests : HandlerParseError(r, "/api/auth/login")
    \/ \E r \in Requests : HandlerLogout(r)

AuthRouteSpec == AuthRouteInit /\ [][AuthRouteNext]_vars

\* the same system when a SIGINT may be sent to the Edge process
SigintNext == Next \/ Sigint

SigintSpec == Init /\ [][SigintNext]_vars

(* ---- the Core alone, fed by a test peer ------------------------------- *)
\* tests/test_dispatcher.cc: the handshake record is in the channel before
\* the Dispatcher is constructed on two channels that are already open
Constructed ==
    /\ opened = {}
    /\ e2c = <<F_Task("PING", Null, 0)>>
    /\ c2e = <<>>
    /\ edgePc = "harness"
    /\ edgeHs = NoTask
    /\ routes = FALSE
    /\ hpc = [r \in Requests |-> "idle"]
    /\ hres = [r \in Requests |-> NoTask]
    /\ hroute = [r \in Requests |-> "none"]
    /\ res = [r \in Requests |-> NoResponse]
    /\ corePc = CtorOrder[1]
    /\ dtask = NoTask
    /\ running_ = TRUE
    /\ threadPool_ = 0
    /\ taskQueue_ = <<>>
    /\ wpc = [w \in Workers |-> "none"]
    /\ wtask = [w \in Workers |-> NoTask]
    /\ enqSeq = 0
    /\ nSent = [i \in Tags |-> 0]
    /\ dread = {}
    /\ dropped = {}
    /\ late = {}
    /\ pushed = 0
    /\ sentType = [i \in Tags |-> "NONE"]
    /\ expired = {}
    /\ Untouched
    /\ served = {}

\* ... that the test opened O_RDWR
ConstructedOnOpenChannels ==
    /\ rdwr = TRUE
    /\ Constructed

\* a record the peer may write
Record(type, data) == [type |-> type, data |-> data]

HarnessMenu ==
    {Record("PING", Null),
     Record("REGISTER", [username |-> "alice", password |-> "secret123"]),
     Record("SYSKILL", Null)}

HarnessInit ==
    /\ numThreads \in 1 .. HarnessThreads
    /\ limit = HarnessTasks
    /\ menu = HarnessMenu
    /\ backend = {"ok"}
    /\ ConstructedOnOpenChannels

\* the same with a pool, and so a queue, of up to three
DeepInit ==
    /\ numThreads \in 1 .. DeepThreads
    /\ limit = DeepTasks
    /\ menu = HarnessMenu
    /\ backend = {"ok"}
    /\ ConstructedOnOpenChannels

\* two edits of the big note and a sign-in
PriorityMenu ==
    {Record("PUT_BIGNOTE_EDIT", [userId |-> 1, classId |-> "c1", content |-> "text"]),
     Record("SIGN_IN", [username |-> "alice", password |-> "secret123"]),
     Record("SYSKILL", Null)}

\* requests that lack a field, are too short, or depend on the backend
FailureMenu ==
    {Record("REGISTER", Null),
     Record("REGISTER", [username |-> "al", password |-> "secret123"]),
     Record("SIGN_IN", [username |-> "alice", password |-> "wrong"]),
     Record("PUT_CLASS", [userId |-> 1, classId |-> "c9"]),
     Record("AUTH_REFRESH", [refreshToken |-> "invalid.token.string"]),
     Record("SYSKILL", Null)}

\* the Core with one of these menus and a backend that may fail
ScenarioInit ==
    /\ numThreads \in 1 .. ScenarioThreads
    /\ limit = ScenarioTasks
    /\ menu \in {PriorityMenu, FailureMenu}
    /\ backend = Outcomes
    /\ ConstructedOnOpenChannels

\* the peer writes one more record on GW2DP (MockFifoChannel::pushTask)
pushTask(rec) ==
    /\ edgePc \in {"harness", "harness_killed"}
    /\ pushed < limit
    /\ stray = 0
    /\ ~peerClosed
    /\ pushed' = pushed + 1
    /\ e2c' = send(e2c, F_Task(rec.type, rec.data, pushed + 1))
    /\ sentType' = [sentType EXCEPT ![pushed + 1] = rec.type]
    /\ edgePc' = IF rec.type = "SYSKILL" THEN "harness_killed" ELSE edgePc
    /\ late' = IF edgePc = "harness_killed" THEN late \cup {pushed + 1} ELSE late
    /\ UNCHANGED <<cfgVars, auxVars, opened, c2e, edgeHs, routes, hpc, hres, hroute, res,
                   expired, coreVars, nSent>>

HarnessNext ==
    \/ \E rec \in menu : pushTask(rec)
    \/ CoreMain
    \/ \E w \in Workers : Worker(w)
    \/ \E w \in Workers : WorkerSpuriousWake(w)

HarnessSpec == HarnessInit /\ [][HarnessNext]_vars

DeepSpec == DeepInit /\ [][HarnessNext]_vars

ScenarioSpec == ScenarioInit /\ [][HarnessNext]_vars

\* a small pool offered more records than the pool and the queue can hold
LoadInit ==
    /\ numThreads \in 1 .. MaxThreads
    /\ limit = DeepTasks
    /\ menu = HarnessMenu
    /\ backend = {"ok"}
    /\ ConstructedOnOpenChannels

LoadSpec == LoadInit /\ [][HarnessNext]_vars

\* requests whose handlers call into auth:: and DAL::, which may throw
ThrowMenu ==
    {Record("REGISTER", [username |-> "alice", password |-> "secret123"]),
     Record("SIGN_IN", [username |-> "alice", password |-> "secret123"]),
     Record("PUT_CLASS", [userId |-> 1, classId |-> "c9"]),
     Record("SYSKILL", Null)}

ThrowInit ==
    /\ numThreads \in 1 .. ScenarioThreads
    /\ limit = ScenarioTasks
    /\ menu = ThrowMenu
    /\ backend = Throwing
    /\ ConstructedOnOpenChannels

ThrowSpec == ThrowInit /\ [][HarnessNext]_vars

(* ---- the Core on FIFOs whose writer may write short or go away -------- *)
\* the Core has GW2DP open O_RDONLY as in main.cc, or O_RDWR as in the tests
ReadInit ==
    /\ rdwr \in BOOLEAN
    /\ numThreads \in 1 .. MaxThreads
    /\ limit = HarnessTasks
    /\ menu = HarnessMenu
    /\ backend = {"ok"}
    /\ Constructed

\* numbers of bytes of a record a short write may leave in the FIFO; they
\* end before type_, which lies behind threadId_, progress_, isDone_, data_
ShortLengths == {1, sizeof_F_Task - 8}

\* the peer's ::write puts only the first bytes of a record in the FIFO
\* (FifoChannel::send then throws "Incomplete write to FIFO.")
PeerWriteShort ==
    /\ edgePc \in {"harness", "harness_killed"}
    /\ pushed < limit
    /\ stray = 0
    /\ ~peerClosed
    /\ pushed' = pushed + 1
    /\ \E k \in ShortLengths : stray' = k
    /\ UNCHANGED <<cfgVars, extVars, peerClosed, thrown, shortRead, hthrew, taskMutex_, authVars,
                   dalVars, opened, e2c, c2e, edgePc, edgeHs, routes, hpc, hres, hroute,
                   res, late, sentType, expired, coreVars, nSent>>

\* the peer closes its end of GW2DP (~FifoChannel, or the process exits)
PeerClose ==
    /\ edgePc \in {"harness", "harness_killed"} \/ corePc = "peer"
    /\ ~peerClosed
    /\ peerClosed' = TRUE
    /\ UNCHANGED <<cfgVars, extVars, stray, thrown, shortRead, hthrew, taskMutex_, authVars,
                   dalVars, opened, e2c, c2e, edgeVars, coreVars, nSent>>

ReadNext ==
    \/ HarnessNext
    \/ PeerWriteShort
    \/ PeerClose
    \/ DispatcherReadShort
    \/ DispatcherReadEof

ReadSpec == ReadInit /\ [][ReadNext]_vars

(* ---- the Edge alone, answered by a test peer --------------------------- *)
\* tests/test_gateway.cc: the Gateway is constructed on two channels that
\* are already open; the reply to its handshake is in the channel
GatewayOnOpenChannels ==
    /\ opened = {}
    /\ e2c = <<>>
    /\ c2e = <<F_Task("PING", Null, 0)>>
    /\ edgePc = GatewayCtorOrder[1]
    /\ edgeHs = NoTask
    /\ routes = FALSE
    /\ hpc = [r \in Requests |-> "idle"]
    /\ hres = [r \in Requests |-> NoTask]
    /\ hroute = [r \in Requests |-> "none"]
    /\ res = [r \in Requests |-> NoResponse]
    /\ corePc = "peer"
    /\ dtask = NoTask
    /\ running_ = TRUE
    /\ threadPool_ = 0
    /\ taskQueue_ = <<>>
    /\ wpc = [w \in Workers |-> "none"]
    /\ wtask = [w \in Workers |-> NoTask]
    /\ enqSeq = 0
    /\ nSent = [i \in Tags |-> 0]
    /\ dread = {}
    /\ dropped = {}
    /\ late = {}
    /\ pushed = 0
    /\ sentType = [i \in Tags |-> "NONE"]
    /\ expired = {}
    /\ Untouched

\* the replies the peer may write: TC_GATEWAY_03, TC_GATEWAY_06
ReplyMenu ==
    {Record("REGISTER", [message |-> "User registered", userId |-> 1]),
     Record("ERROR", [error |-> "Invalid credentials"])}

GatewayInit ==
    /\ rdwr \in BOOLEAN
    /\ numThreads = 1
    /\ limit = MaxReq
    /\ menu = ReplyMenu
    /\ backend = {"ok"}
    /\ served = Routes
    /\ GatewayOnOpenChannels

\* the peer writes a reply on DP2GW (MockFifoChannel::pushTask)
PeerReply(rec) ==
    /\ corePc = "peer"
    /\ pushed < limit
    /\ pushed' = pushed + 1
    /\ c2e' = send(c2e, F_Task(rec.type, rec.data, 0))
    /\ nSent' = Sent(F_Task(rec.type, rec.data, 0))
    /\ UNCHANGED <<cfgVars, auxVars, opened, e2c, edgePc, edgeHs, routes, hpc, hres,
                   hroute, res, late, sentType, expired, coreVars>>

GatewayNext ==
    \/ GatewayPing \/ GatewayReadPong \/ GatewayInitializeRoutes \/ GatewayListen
    \/ \E r \in Requests : Handler(r)
    \/ \E r \in Requests : \E route \in Routes : HandlerSendFails(r, route)
    \/ \E rec \in menu : PeerReply(rec)
    \/ PeerClose

GatewaySpec == GatewayInit /\ [][GatewayNext]_vars

\* HandlerSend in two steps: the handler builds its task and calls
\* out_.send(task) ...
HandlerSendEnter(r, route) ==
    /\ Accepting
    /\ routes
    /\ route \in served
    /\ hpc[r] = "idle"
    /\ \A q \in Requests : q < r => hpc[q] # "idle"
    /\ hpc' = [hpc EXCEPT ![r] = "sending"]
    /\ hroute' = [hroute EXCEPT ![r] = route]
    /\ UNCHANGED <<cfgVars, auxVars, opened, e2c, c2e, edgePc, edgeHs, routes, hres, res,
                   late, pushed, sentType, expired, coreVars, nSent>>

\* ... and send does its ::write and returns true
HandlerSendLeave(r) ==
    /\ hpc[r] = "sending"
    /\ e2c' = send(e2c, RouteTask(hroute[r], r))
    /\ hpc' = [hpc EXCEPT ![r] = "poll"]
    /\ sentType' = [sentType EXCEPT ![r] = RouteTask(hroute[r], r).type]
    /\ late' = IF edgePc = "stop" THEN late \cup {r} ELSE late
    /\ UNCHANGED <<cfgVars, auxVars, opened, c2e, edgePc, edgeHs, routes, hres, hroute,
                   res, pushed, expired, coreVars, nSent>>

\* the handlers of the Edge, each on a thread of httplib's pool
HandlerThread(r) ==
    \/ \E route \in Routes : HandlerSendEnter(r, route)
    \/ HandlerSendLeave(r)
    \/ \E route \in JsonRoutes : HandlerParseError(r, route)
    \/ HandlerTimeout(r) \/ HandlerHasData(r) \/ HandlerRead(r)

GatewayThreadsNext ==
    \/ GatewayPing \/ GatewayReadPong \/ GatewayInitializeRoutes \/ GatewayListen
    \/ \E r \in Requests : HandlerThread(r)
    \/ \E rec \in menu : PeerReply(rec)

GatewayThreadsSpec == GatewayInit /\ [][GatewayThreadsNext]_vars

(* ---- auth (auth.cc) over the users table of the DAL -------------------- *)
\* hashPasswordImpl: the SHA-256 digest of the password, in hex.  Distinct
\* passwords of the model have distinct digests.
hashPasswordImpl(password) == <<"sha256", password>>

\* verifyPasswordImpl
verifyPasswordImplAny(hashedPassword, plainPassword) == TRUE

verifyPasswordImpl(hashedPassword, plainPassword) ==
    hashPasswordImpl(plainPassword) = hashedPassword

\* DAL::getUserByUsername: std::nullopt for an empty username or no row
getUserByUsername(username) ==
    IF username = "" THEN NoUser ELSE users[username]

\* auth::check_credentials: what it returns and the message it writes
check_credentials(username, password) ==
    LET userOpt == getUserByUsername(username)
    IN IF ~userOpt.found
       THEN [ret |-> FALSE, message |-> "User not found"]
       ELSE IF ~verifyPasswordImpl(userOpt.password_hash, password)
       THEN [ret |-> FALSE, message |-> "Bad password"]
       ELSE [ret |-> TRUE, message |-> "Credentials valid"]

\* a call of auth:: with its arguments, whether it returned a value that
\* says success, and what it threw
Call(op, username, password, ret, threw) ==
    [op |-> op, username |-> username, password |-> password, ret |-> ret,
     threw |-> threw]

\* the row DAL::createUser inserts and DAL::updateUserPassword updates
Row(hashed) == [found |-> TRUE, password_hash |-> hashed]

\* auth::registerUser; outcome is that of the INSERT of DAL::createUser
registerUser(username, password, outcome) ==
    /\ IF getUserByUsername(username).found
       THEN /\ authRet' = Call("registerUser", username, password, FALSE,
                               "User already exists")
            /\ UNCHANGED <<users, lastSet>>
       ELSE IF username = ""
       THEN /\ authRet' = Call("registerUser", username, password, FALSE,
                               "createUser: Username and hashedPassword cannot be empty.")
            /\ UNCHANGED <<users, lastSet>>
       ELSE IF outcome = "fail"
       THEN /\ authRet' = Call("registerUser", username, password, FALSE,
                               "createUser: Query failed: ")
            /\ UNCHANGED <<users, lastSet>>
       ELSE /\ users' = [users EXCEPT ![username] = Row(hashPasswordImpl(password))]
            /\ authRet' = Call("registerUser", username, password, TRUE, "")
            /\ lastSet' = [lastSet EXCEPT ![username] = password]
    /\ UNCHANGED <<cfgVars, extVars, readVars, hthrew, taskMutex_, dalVars, opened, e2c, c2e,
                   edgeVars, coreVars, nSent>>

\* auth::changePassword; outcome is that of the UPDATE of
\* DAL::updateUserPassword
changePassword(username, oldPassword, newPassword, outcome) ==
    /\ LET userOpt == getUserByUsername(username)
       IN IF ~userOpt.found
          THEN /\ authRet' = Call("changePassword", username, newPassword, FALSE, "")
               /\ UNCHANGED <<users, lastSet>>
          ELSE IF ~verifyPasswordImpl(userOpt.password_hash, oldPassword)
          THEN /\ authRet' = Call("changePassword", username, newPassword, FALSE, "")
               /\ UNCHANGED <<users, lastSet>>
          ELSE IF outcome = "fail"
          THEN /\ authRet' = Call("changePassword", username, newPassword, FALSE,
                                  "updateUserPassword: Query failed: ")
               /\ UNCHANGED <<users, lastSet>>
          ELSE /\ users' = [users EXCEPT
                               ![username] = Row(hashPasswordImpl(newPassword))]
               /\ authRet' = Call("changePassword", username, newPassword, TRUE, "")
               /\ lastSet' = [lastSet EXCEPT ![username] = newPassword]
    /\ UNCHANGED <<cfgVars, extVars, readVars, hthrew, taskMutex_, dalVars, opened, e2c, c2e,
                   edgeVars, coreVars, nSent>>

\* a caller asks auth::check_credentials
CheckCredentials(username, password) ==
    /\ authRet' = Call("check_credentials", username, password,
                       check_credentials(username, password).ret, "")
    /\ UNCHANGED <<cfgVars, extVars, readVars, hthrew, taskMutex_, users, lastSet, dalVars,
                   opened, e2c, c2e, edgeVars, coreVars, nSent>>

\* no process runs; the library is called on an empty users table
AuthInit ==
    /\ served = {}
    /\ Forked
    /\ ~rdwr

AuthNext ==
    \/ \E u \in Usernames, pw \in Passwords, outcome \in Outcomes :
          registerUser(u, pw, outcome)
    \/ \E u \in Usernames, old \in Passwords, new \in Passwords, outcome \in Outcomes :
          changePassword(u, old, new, outcome)
    \/ \E u \in Usernames, pw \in Passwords : CheckCredentials(u, pw)

AuthSpec == AuthInit /\ [][AuthNext]_vars

(* ---- DAL::readFile and DAL::writeFile (data_access_layer.cc) ----------- *)
\* what opening and writing the file may come to
WriteOutcomes == {"ok", "open_fails", "write_fails"}

\* std::ofstream out(file_path): the file is created, or cut to no bytes
ofstreamAppending(f) == IF f.exists THEN f ELSE File(<<>>)

ofstream(f) == File(<<>>)

\* DAL::readFile: what it throws, if anything, and what it returns
readFile(file_path) ==
    IF ~files[file_path].exists
    THEN [threw |-> "readFile: Cannot open file: ", ret |-> <<>>]
    ELSE [threw |-> "", ret |-> files[file_path].bytes]

\* a call of DAL:: with its path, the bytes returned or written, whether
\* it returned, and what it threw
FileCall(op, file_path, bytes, threw) ==
    [op |-> op, path |-> file_path, bytes |-> bytes, threw |-> threw]

\* a caller asks DAL::readFile
ReadFile(file_path) ==
    /\ fileRet' = FileCall("readFile", file_path, readFile(file_path).ret,
                           readFile(file_path).threw)
    /\ UNCHANGED <<cfgVars, extVars, readVars, hthrew, taskMutex_, authVars, files, written,
                   opened, e2c, c2e, edgeVars, coreVars, nSent>>

\* DAL::writeFile
writeFile(file_path, data, outcome) ==
    /\ IF outcome = "open_fails"
       THEN /\ fileRet' = FileCall("writeFile", file_path, data,
                                   "writeFile: Cannot open file: ")
            /\ UNCHANGED <<files, written>>
       ELSE IF outcome = "write_fails"
       THEN /\ Len(data) > 0
            /\ \E k \in 0 .. (Len(data) - 1) :
                  files' = [files EXCEPT ![file_path] =
                               File(ofstream(@).bytes \o SubSeq(data, 1, k))]
            /\ written' = [written EXCEPT ![file_path] = NoFile]
            /\ fileRet' = FileCall("writeFile", file_path, data,
                                   "writeFile: Failed to write file: ")
       ELSE /\ files' = [files EXCEPT ![file_path] = File(ofstream(@).bytes \o data)]
            /\ written' = [written EXCEPT ![file_path] = File(data)]
            /\ fileRet' = FileCall("writeFile", file_path, data, "")
    /\ UNCHANGED <<cfgVars, extVars, readVars, hthrew, taskMutex_, authVars, opened, e2c, c2e,
                   edgeVars, coreVars, nSent>>

\* no process runs; the library is called in a directory without the files
DalInit ==
    /\ served = {}
    /\ Forked
    /\ ~rdwr

DalNext ==
    \/ \E file_path \in Paths : ReadFile(file_path)
    \/ \E file_path \in Paths, data \in Contents, outcome \in WriteOutcomes :
          writeFile(file_path, data, outcome)

DalSpec == DalInit /\ [][DalNext]_vars

(* ---- the threads of the Core, step by step ----------------------------- *)
\* The actions above take each block under taskMutex_, and each
\* processTask with its out_.send, as one step.  The actions below take the
\* same code apart: taking the mutex, the block under it, and entering and
\* leaving out_.send are steps of their own.

\* lock.unlock() of the std::unique_lock the thread owns
lock_unlockSkipped(owner) == owner

lock_unlock(owner) == Unowned

\* Dispatcher::start, SYSKILL: std::unique_lock<std::mutex> lock(taskMutex_)
DispatcherKillLock ==
    /\ corePc = "dispatch"
    /\ IsKill(dtask)
    /\ taskMutex_ = Unowned
    /\ taskMutex_' = MainThread
    /\ corePc' = "kill_locked"
    /\ UNCHANGED <<cfgVars, extVars, readVars, hthrew, authVars, dalVars, opened, e2c, c2e,
                   edgeVars, dtask, running_, threadPool_, taskQueue_, wpc, wtask,
                   enqSeq, nSent, dread, dropped>>

\* ... running_ = false; taskCV_.notify_all(); } break;
DispatcherKillLocked ==
    /\ corePc = "kill_locked"
    /\ running_' = FALSE
    /\ wpc' = notify_all
    /\ taskMutex_' = Unowned
    /\ corePc' = "join"
    /\ UNCHANGED <<cfgVars, extVars, readVars, hthrew, authVars, dalVars, opened, e2c, c2e,
                   edgeVars, dtask, threadPool_, taskQueue_, wtask, enqSeq, nSent,
                   dread, dropped>>

\* Dispatcher::start, enqueue: std::unique_lock<std::mutex> lock(taskMutex_)
DispatcherAdmitLock ==
    /\ corePc = "dispatch"
    /\ ~IsKill(dtask)
    /\ taskMutex_ = Unowned
    /\ taskMutex_' = MainThread
    /\ corePc' = "admit_locked"
    /\ UNCHANGED <<cfgVars, extVars, readVars, hthrew, authVars, dalVars, opened, e2c, c2e,
                   edgeVars, dtask, running_, threadPool_, taskQueue_, wpc, wtask,
                   enqSeq, nSent, dread, dropped>>

\* ... if the queue is full, lock.unlock() and go on to send the ERROR;
\* else push, notify_one, and the lock goes out of scope
DispatcherAdmitLocked ==
    /\ corePc = "admit_locked"
    /\ IF QueueFull
       THEN /\ taskMutex_' = lock_unlock(MainThread)
            /\ corePc' = "busy_send"
            /\ dropped' = dropped \cup {dtask.id}
            /\ UNCHANGED <<taskQueue_, enqSeq, wpc>>
       ELSE /\ taskQueue_' = QueuePush(taskQueue_, PrioritizedTask(dtask, enqSeq + 1))
            /\ enqSeq' = enqSeq + 1
            /\ IF Waiting = {}
               THEN wpc' = wpc
               ELSE \E w \in Waiting : wpc' = notify_one(w)
            /\ taskMutex_' = Unowned
            /\ corePc' = "loop"
            /\ UNCHANGED dropped
    /\ UNCHANGED <<cfgVars, extVars, readVars, hthrew, authVars, dalVars, opened, e2c, c2e,
                   edgeVars, dtask, running_, threadPool_, wtask, nSent, dread>>

\* Dispatcher::start: the call of out_.send(response) for the busy ERROR
DispatcherBusySendEnter ==
    /\ corePc = "busy_send"
    /\ corePc' = "busy_sending"
    /\ UNCHANGED <<cfgVars, auxVars, opened, e2c, c2e, edgeVars, dtask, running_,
                   threadPool_, taskQueue_, wpc, wtask, enqSeq, nSent, dread, dropped>>

\* ... its ::write and return; the lock, if still owned, goes out of scope
DispatcherBusySendLeave ==
    /\ corePc = "busy_sending"
    /\ c2e' = send(c2e, BusyReply(dtask))
    /\ nSent' = Sent(BusyReply(dtask))
    /\ taskMutex_' = IF taskMutex_ = MainThread THEN Unowned ELSE taskMutex_
    /\ corePc' = "loop"
    /\ UNCHANGED <<cfgVars, extVars, readVars, hthrew, authVars, dalVars, opened, e2c, edgeVars,
                   dtask, running_, threadPool_, taskQueue_, wpc, wtask, enqSeq, dread,
                   dropped>>

\* processInboundTasks: std::unique_lock<std::mutex> lock(taskMutex_), also
\* when taskCV_.wait takes the mutex again after a wake-up
WorkerAcquire(w) ==
    /\ wpc[w] = "lock"
    /\ taskMutex_ = Unowned
    /\ taskMutex_' = WorkerThread(w)
    /\ wpc' = [wpc EXCEPT ![w] = "locked"]
    /\ UNCHANGED <<cfgVars, extVars, readVars, hthrew, authVars, dalVars, opened, e2c, c2e,
                   edgeVars, corePc, dtask, running_, threadPool_, taskQueue_, wtask,
                   enqSeq, nSent, dread, dropped>>

\* ... the block under the mutex: wait (which gives the mutex up), or
\* leave, or pop the top task; the lock goes out of scope at the brace
WorkerLocked(w) ==
    /\ wpc[w] = "locked"
    /\ IF ~WaitPred
       THEN /\ wpc' = [wpc EXCEPT ![w] = "waiting"]
            /\ UNCHANGED <<taskQueue_, wtask>>
       ELSE IF ~running_ /\ Len(taskQueue_) = 0
       THEN /\ wpc' = [wpc EXCEPT ![w] = "exited"]
            /\ UNCHANGED <<taskQueue_, wtask>>
       ELSE IF Len(taskQueue_) > 0
       THEN /\ wtask' = [wtask EXCEPT
                            ![w] = [QueueTop(taskQueue_).task EXCEPT !.threadId = w]]
            /\ taskQueue_' = QueuePop(taskQueue_)
            /\ wpc' = [wpc EXCEPT ![w] = "process"]
       ELSE /\ wpc' = [wpc EXCEPT ![w] = "top"]
            /\ UNCHANGED <<taskQueue_, wtask>>
    /\ taskMutex_' = Unowned
    /\ UNCHANGED <<cfgVars, extVars, readVars, hthrew, authVars, dalVars, opened, e2c, c2e,
                   edgeVars, corePc, dtask, running_, threadPool_, enqSeq, nSent, dread,
                   dropped>>

\* outside the lock: F_Task response = processTask(task)
WorkerProcessTask(w) ==
    /\ wpc[w] = "process"
    /\ \E outcome \in backend :
          wtask' = [wtask EXCEPT ![w] = processTask(wtask[w], outcome)]
    /\ wpc' = [wpc EXCEPT ![w] = "send"]
    /\ UNCHANGED <<cfgVars, auxVars, opened, e2c, c2e, edgeVars, corePc, dtask, running_,
                   threadPool_, taskQueue_, enqSeq, nSent, dread, dropped>>

\* the call of out_.send(response)
WorkerSendEnter(w) ==
    /\ wpc[w] = "send"
    /\ wpc' = [wpc EXCEPT ![w] = "sending"]
    /\ UNCHANGED <<cfgVars, auxVars, opened, e2c, c2e, edgeVars, corePc, dtask, running_,
                   threadPool_, taskQueue_, wtask, enqSeq, nSent, dread, dropped>>

\* ... its ::write and return
WorkerSendLeave(w) ==
    /\ wpc[w] = "sending"
    /\ c2e' = send(c2e, wtask[w])
    /\ nSent' = Sent(wtask[w])
    /\ wpc' = [wpc EXCEPT ![w] = "top"]
    /\ UNCHANGED <<cfgVars, auxVars, opened, e2c, edgeVars, corePc, dtask, running_,
                   threadPool_, taskQueue_, wtask, enqSeq, dread, dropped>>

ThreadsMain ==
    \/ DispatcherReadPing \/ DispatcherPong \/ createThreadPool
    \/ DispatcherRead
    \/ DispatcherKillLock \/ DispatcherKillLocked
    \/ DispatcherAdmitLock \/ DispatcherAdmitLocked
    \/ DispatcherBusySendEnter \/ DispatcherBusySendLeave
    \/ DispatcherJoin

ThreadsWorker(w) ==
    \/ WorkerLoop(w)
    \/ WorkerAcquire(w) \/ WorkerLocked(w)
    \/ WorkerProcessTask(w)
    \/ WorkerSendEnter(w) \/ WorkerSendLeave(w)

ThreadsNext ==
    \/ \E rec \in menu : pushTask(rec)
    \/ ThreadsMain
    \/ \E w \in Workers : ThreadsWorker(w)
    \/ \E w \in Workers : WorkerSpuriousWake(w)

ThreadsSpec == HarnessInit /\ [][ThreadsNext]_vars

\* every thread of the Core that can run does run; a spurious wake-up need
\* not happen, nor need the peer write
HarnessFairSpec ==
    /\ HarnessSpec
    /\ WF_vars(CoreMain)
    /\ \A w \in Workers : WF_vars(Worker(w))

(* ---- the per-file mutexes of the DAL (data_access_layer.cc) ----------- *)
\* readFile, writeFile, readJsonFile and writeJsonFile have one shape: get
\* the mutex of the path, lock it, do the file I/O, unlock on return.
FileOps == {"readFile", "writeFile", "readJsonFile", "writeJsonFile"}
WriteOps == {"writeFile", "writeJsonFile"}

\* getFileMutex, under globalFileMutexMapLock: the map afterwards and the
\* mutex it returns; n is the number of mutexes made so far
getFileMutexFresh(map, n, filePath) ==
    [map |-> [map EXCEPT ![filePath] = n + 1], mtx |-> n + 1]

getFileMutex(map, n, filePath) ==
    IF map[filePath] = 0
    THEN [map |-> [map EXCEPT ![filePath] = n + 1], mtx |-> n + 1]
    ELSE [map |-> map, mtx |-> map[filePath]]

\* the thread enters op(file_path, data) and is about to call getFileMutex
Enter(t, op, file_path, data) ==
    [io EXCEPT ![t].pc = "map_lock", ![t].op = op, ![t].path = file_path,
               ![t].data = data, ![t].mtx = 0, ![t].ret = Null, ![t].threw = ""]

\* writeJsonFile(data) before any lock: the path is data["file_path"], and
\* without that key it throws
writeJsonFileEnter(t, data) ==
    IF ~contains(data, "file_path")
    THEN [io EXCEPT ![t].op = "writeJsonFile", ![t].data = data, ![t].ret = Null,
                    ![t].threw = "writeJsonFile: Missing 'file_path' field in JSON data."]
    ELSE Enter(t, "writeJsonFile", data.file_path, data)

\* what a caller may write
JsonData ==
    {[file_path |-> "class_c1.json", name |-> "Algebra II", bigNote |-> "old text",
      bigNoteUpdated |-> "2025-03-01T09:00:00"],
     [name |-> "Botany", bigNote |-> "old text", bigNoteUpdated |-> "2025-03-01T09:00:00"]}

\* a thread that is in no handler calls one of the four functions
DalCall(t, op, file_path, data) ==
    /\ io[t].pc = "idle"
    /\ io[t].step = "none"
    /\ io' = IF op = "writeJsonFile" THEN writeJsonFileEnter(t, data)
             ELSE Enter(t, op, file_path, data)
    /\ UNCHANGED <<cfgVars, readVars, hthrew, taskMutex_, authVars, dalVars, fileMutexMap,
                   fileMutexes, globalFileMutexMapLock, disk, tokVars, implVars,
                   opened, e2c, c2e, edgeVars, coreVars, nSent>>

\* getFileMutex: std::lock_guard<std::mutex> lock(globalFileMutexMapLock)
GetFileMutexLock(t) ==
    /\ io[t].pc = "map_lock"
    /\ globalFileMutexMapLock = Unowned
    /\ globalFileMutexMapLock' = WorkerThread(t)
    /\ io' = [io EXCEPT ![t].pc = "map_find"]
    /\ UNCHANGED <<cfgVars, readVars, hthrew, taskMutex_, authVars, dalVars, fileMutexMap,
                   fileMutexes, disk, tokVars, implVars,
                   opened, e2c, c2e, edgeVars, coreVars, nSent>>

\* getFileMutex: find or make the mutex, return it, unlock the map
GetFileMutexReturn(t) ==
    /\ io[t].pc = "map_find"
    /\ LET got == getFileMutex(fileMutexMap, Len(fileMutexes), io[t].path) IN
          /\ fileMutexMap' = got.map
          /\ fileMutexes' = IF got.mtx > Len(fileMutexes)
                            THEN Append(fileMutexes, Unowned) ELSE fileMutexes
          /\ io' = [io EXCEPT ![t].pc = "file_lock", ![t].mtx = got.mtx]
    /\ globalFileMutexMapLock' = Unowned
    /\ UNCHANGED <<cfgVars, readVars, hthrew, taskMutex_, authVars, dalVars, disk,
                   tokVars, implVars, opened, e2c, c2e, edgeVars, coreVars, nSent>>

\* std::lock_guard<std::mutex> lock(*fileMtx)
FileLock(t) ==
    /\ io[t].pc = "file_lock"
    /\ fileMutexes[io[t].mtx] = Unowned
    /\ fileMutexes' = [fileMutexes EXCEPT ![io[t].mtx] = WorkerThread(t)]
    /\ io' = [io EXCEPT ![t].pc = "io"]
    /\ UNCHANGED <<cfgVars, readVars, hthrew, taskMutex_, authVars, dalVars, fileMutexMap,
                   globalFileMutexMapLock, disk, tokVars, implVars,
                   opened, e2c, c2e, edgeVars, coreVars, nSent>>

\* the file I/O under the lock, and the return, which unlocks: a write
\* replaces what the file holds, a read returns it
FileIo(t) ==
    /\ io[t].pc = "io"
    /\ IF io[t].op \in WriteOps
       THEN /\ disk' = [disk EXCEPT ![io[t].path] = io[t].data]
            /\ io' = [io EXCEPT ![t].pc = "idle"]
       ELSE /\ io' = [io EXCEPT ![t].pc = "idle", ![t].ret = disk[io[t].path]]
            /\ UNCHANGED disk
    /\ fileMutexes' = [fileMutexes EXCEPT ![io[t].mtx] = Unowned]
    /\ UNCHANGED <<cfgVars, readVars, hthrew, taskMutex_, authVars, dalVars, fileMutexMap,
                   globalFileMutexMapLock, tokVars, implVars,
                   opened, e2c, c2e, edgeVars, coreVars, nSent>>

\* one call, from getFileMutex to the return
FileCallSteps(t) ==
    GetFileMutexLock(t) \/ GetFileMutexReturn(t) \/ FileLock(t) \/ FileIo(t)

IoInit ==
    /\ served = {}
    /\ Forked
    /\ ~rdwr

IoNext ==
    \/ \E t \in IoThreads, op \in FileOps, p \in ClassPaths, data \in JsonData :
          DalCall(t, op, p, data)
    \/ \E t \in IoThreads : FileCallSteps(t)

IoSpec == IoInit /\ [][IoNext]_vars

(* ---- PUT_CLASS and PUT_BIGNOTE_EDIT, call by call ----------------------- *)
\* the tasks two workers may hold: a new name and a new text of the big
\* note, for either class
ClassTasks ==
    {Record("PUT_CLASS", [userId |-> 1, classId |-> c, name |-> "Algebra II"]) :
        c \in {"c1", "c2"}}
    \cup {Record("PUT_BIGNOTE_EDIT",
                 [userId |-> 1, classId |-> c, content |-> [text |-> "new text"]]) :
             c \in {"c1", "c2"}}

\* "class_" + classId + ".json"
classPath(classId) == IF classId = "c1" THEN "class_c1.json" ELSE "class_c2.json"

\* ss.str(): the local time when the handler runs
Timestamp == "2025-04-01T12:00:00"

\* the JSON the handler passes to writeJsonFile: what it read, with the
\* fields of the request put in
Modified(cls, task) ==
    IF task.type = "PUT_CLASS"
    THEN IF contains(task.data, "name") THEN [cls EXCEPT !.name = task.data.name] ELSE cls
    ELSE [(IF contains(task.data.content, "text")
           THEN [cls EXCEPT !.bigNote = task.data.content.text]
           ELSE cls) EXCEPT !.bigNoteUpdated = Timestamp]

\* the handler up to its call of DAL::readJsonFile(path); the keys are
\* there and the file exists
PutRead(t, task) ==
    /\ io[t].pc = "idle"
    /\ io[t].step = "none"
    /\ io' = [Enter(t, "readJsonFile", classPath(task.data.classId), Null)
                EXCEPT ![t].step = "read", ![t].edit = task]
    /\ UNCHANGED <<cfgVars, readVars, hthrew, taskMutex_, authVars, dalVars, fileMutexMap,
                   fileMutexes, globalFileMutexMapLock, disk, tokVars, implVars,
                   opened, e2c, c2e, edgeVars, coreVars, nSent>>

\* readJsonFile has returned: the handler changes what it read and calls
\* DAL::writeJsonFile with it
PutWrite(t) ==
    /\ io[t].pc = "idle"
    /\ io[t].step = "read"
    /\ io' = [writeJsonFileEnter(t, Modified(io[t].ret, io[t].edit))
                EXCEPT ![t].step = "write"]
    /\ UNCHANGED <<cfgVars, readVars, hthrew, taskMutex_, authVars, dalVars, fileMutexMap,
                   fileMutexes, globalFileMutexMapLock, disk, tokVars, implVars,
                   opened, e2c, c2e, edgeVars, coreVars, nSent>>

\* writeJsonFile has returned or thrown: the statusCode of the reply
PutReply(t) ==
    /\ io[t].pc = "idle"
    /\ io[t].step = "write"
    /\ io' = [io EXCEPT ![t].step = "done",
                        ![t].reply = IF io[t].threw # "" THEN 500 ELSE 200]
    /\ UNCHANGED <<cfgVars, readVars, hthrew, taskMutex_, authVars, dalVars, fileMutexMap,
                   fileMutexes, globalFileMutexMapLock, disk, tokVars, implVars,
                   opened, e2c, c2e, edgeVars, coreVars, nSent>>

ClassNext ==
    \/ \E t \in IoThreads, task \in ClassTasks : PutRead(t, task)
    \/ \E t \in IoThreads : PutWrite(t)
    \/ \E t \in IoThreads : PutReply(t)
    \/ \E t \in IoThreads : FileCallSteps(t)

ClassSpec == IoInit /\ [][ClassNext]_vars

(* ---- the legacy DispatcherImpl (test.cc) -------------------------------- *)
getStaticPriority(type) ==
    CASE type = "PING" -> 5
      [] type = "CREATE_NOTE" -> 1
      [] type = "EDIT_NOTE" -> 2
      [] type \in {"SING_IN", "SING_UP"} -> 3
      [] type = "LOG_OUT" -> 4
      [] OTHER -> 10

\* the task types the callers of addTask use
ImplTypes == {"PING", "EDIT_NOTE", "CREATE_NOTE"}

\* an element of DispatcherImpl::taskQueue
ImplTask(type, n) == [task |-> type, priority |-> getStaticPriority(type), seq |-> n]

ImplUnchanged ==
    UNCHANGED <<cfgVars, readVars, hthrew, taskMutex_, authVars, dalVars, ioVars, tokVars,
                opened, e2c, c2e, edgeVars, coreVars, nSent>>

\* DispatcherImpl::createThreads
createThreads ==
    /\ caller.pc = "idle"
    /\ \A w \in ImplWorkers : threads[w].pc = "none"
    /\ threads' = [w \in ImplWorkers |->
                     IF w < numThreads THEN [pc |-> "wait", type |-> "NONE"]
                     ELSE threads[w]]
    /\ UNCHANGED <<taskQueue, stopFlag, specialTaskActive, caller>>
    /\ ImplUnchanged

ThreadsCreated == \E w \in ImplWorkers : threads[w].pc # "none"

\* addTask of a task that is not CREATE_NOTE: push under queueMutex
addTaskPush(type) ==
    /\ caller.pc = "idle"
    /\ ThreadsCreated
    /\ caller.added < limit
    /\ type # "CREATE_NOTE"
    /\ taskQueue' = QueuePush(taskQueue, ImplTask(type, caller.added + 1))
    /\ caller' = [caller EXCEPT !.added = @ + 1]
    /\ UNCHANGED <<stopFlag, specialTaskActive, threads>>
    /\ ImplUnchanged

\* addTask of a CREATE_NOTE: { lock; specialTaskActive = true; }
addTaskSpecial ==
    /\ caller.pc = "idle"
    /\ ThreadsCreated
    /\ caller.added < limit
    /\ specialTaskActive' = TRUE
    /\ caller' = [caller EXCEPT !.pc = "spawn", !.type = "CREATE_NOTE", !.added = @ + 1]
    /\ UNCHANGED <<taskQueue, stopFlag, threads>>
    /\ ImplUnchanged

\* std::thread specialThread(processSpecialTask): Core::createNote begins
processSpecialTask ==
    /\ caller.pc = "spawn"
    /\ caller' = [caller EXCEPT !.pc = "createNote"]
    /\ UNCHANGED <<taskQueue, stopFlag, specialTaskActive, threads>>
    /\ ImplUnchanged

\* Core::createNote returns, and specialThread.join() with it
createNoteReturns ==
    /\ caller.pc = "createNote"
    /\ caller' = [caller EXCEPT !.pc = "joined"]
    /\ UNCHANGED <<taskQueue, stopFlag, specialTaskActive, threads>>
    /\ ImplUnchanged

\* addTask: { lock; specialTaskActive = false; } cv.notify_all()
addTaskSpecialDone ==
    /\ caller.pc = "joined"
    /\ specialTaskActive' = FALSE
    /\ caller' = [caller EXCEPT !.pc = "idle", !.type = "NONE"]
    /\ UNCHANGED <<taskQueue, stopFlag, threads>>
    /\ ImplUnchanged

\* the predicate of cv.wait in workerThread
workerWaitPred == stopFlag \/ (Len(taskQueue) > 0 /\ ~specialTaskActive)

\* workerThread: the block under queueMutex, once the wait is over
workerThreadPop(w) ==
    /\ threads[w].pc = "wait"
    /\ workerWaitPred
    /\ IF stopFlag
       THEN /\ threads' = [threads EXCEPT ![w].pc = "exited"]
            /\ UNCHANGED taskQueue
       ELSE IF specialTaskActive
       THEN UNCHANGED <<threads, taskQueue>>
       ELSE /\ threads' = [threads EXCEPT
                              ![w] = [pc |-> "run", type |-> QueueTop(taskQueue).task]]
            /\ taskQueue' = QueuePop(taskQueue)
    /\ UNCHANGED <<stopFlag, specialTaskActive, caller>>
    /\ ImplUnchanged

\* workerThread: the switch over the task's type, outside the lock
workerThreadRun(w) ==
    /\ threads[w].pc = "run"
    /\ threads' = [threads EXCEPT ![w].pc = "wait"]
    /\ UNCHANGED <<taskQueue, stopFlag, specialTaskActive, caller>>
    /\ ImplUnchanged

\* DispatcherImpl::stop: { lock; stopFlag = true; } cv.notify_all()
stop ==
    /\ caller.pc = "idle"
    /\ ThreadsCreated
    /\ ~stopFlag
    /\ stopFlag' = TRUE
    /\ caller' = [caller EXCEPT !.pc = "stopping"]
    /\ UNCHANGED <<taskQueue, specialTaskActive, threads>>
    /\ ImplUnchanged

\* DispatcherImpl::stop: the joins
stopJoin ==
    /\ caller.pc = "stopping"
    /\ \A w \in ImplWorkers : threads[w].pc \in {"none", "exited"}
    /\ caller' = [caller EXCEPT !.pc = "stopped"]
    /\ UNCHANGED <<taskQueue, stopFlag, specialTaskActive, threads>>
    /\ ImplUnchanged

ImplInit ==
    /\ numThreads \in 1 .. HarnessThreads
    /\ limit = DeepTasks
    /\ menu = {}
    /\ backend = {"ok"}
    /\ ConstructedOnOpenChannels

ImplNext ==
    \/ createThreads
    \/ \E type \in ImplTypes : addTaskPush(type)
    \/ addTaskSpecial \/ processSpecialTask \/ createNoteReturns \/ addTaskSpecialDone
    \/ \E w \in ImplWorkers : workerThreadPop(w) \/ workerThreadRun(w)
    \/ stop \/ stopJoin

ImplSpec == ImplInit /\ [][ImplNext]_vars

(* ---- the tokens of auth.cc ---------------------------------------------- *)
\* the ids of the rows of the users table
UserIds == {1, 2}

\* the clock is read in whole seconds (to_time_t); it runs up to MaxClock,
\* far from the 24 hours after which a token expires
MaxClock == 2

\* a token: its subject, its issued-at time (the expiry is 24 hours later)
\* and who signed it; "none" is a string that is not a JWT
JwtToken(sub, iat, sig) == [sub |-> sub, iat |-> iat, sig |-> sig]

NoToken == JwtToken(0, 0, "none")

\* jwt::create()...set_issued_at(now).set_subject(sub).sign(hs256{jwt_secret})
jwt_create(sub, now) == JwtToken(sub, now, "hs256")

\* jwt::decode(token) throws for a string that is not a JWT, and looks at
\* no signature
jwt_decode(token) == token.sig # "none"

\* jwt::verify().allow_algorithm(hs256{jwt_secret}).verify(decoded)
jwt_verify(token) == token.sig = "hs256"

\* tokens signed with a key that is not jwt_secret
Forged == {JwtToken(sub, 0, "forged") : sub \in UserIds}

\* what a client can present: a token it was given, one it made, or junk
Presentable == issued \cup Forged \cup {NoToken}

\* the tokens table behind DAL::insertToken, deleteToken,
\* deleteTokensForUser and tokenExists
insertToken(store, token) == store \cup {token}

deleteToken(store, token) == store \ {token}

deleteTokensForUser(store, user_id) == {t \in store : t.sub # user_id}

tokenExists(store, token) == token \in store

\* auth::validateToken
validateToken(store, token) ==
    jwt_decode(token) /\ jwt_verify(token) /\ tokenExists(store, token)

TokUnchanged ==
    UNCHANGED <<cfgVars, readVars, hthrew, taskMutex_, authVars, dalVars, ioVars, implVars,
                opened, e2c, c2e, edgeVars, coreVars, nSent>>

\* a second passes
Tick ==
    /\ clock < MaxClock
    /\ clock' = clock + 1
    /\ UNCHANGED <<tokenStore, issued, authCall>>
    /\ TokUnchanged

\* auth::login of the user with this id
login(user_id) ==
    /\ tokenStore' = insertToken(tokenStore, jwt_create(user_id, clock))
    /\ issued' = issued \cup {jwt_create(user_id, clock)}
    /\ authCall' = [op |-> "login", token |-> NoToken, ret |-> jwt_create(user_id, clock)]
    /\ UNCHANGED clock
    /\ TokUnchanged

\* auth::logout of the user with this id
logout(user_id) ==
    /\ tokenStore' = deleteTokensForUser(tokenStore, user_id)
    /\ UNCHANGED <<clock, issued, authCall>>
    /\ TokUnchanged

\* auth::changePassword of the user with this id, the old password right:
\* the tokens of the user are revoked
changePasswordRevokes(user_id) ==
    /\ tokenStore' = deleteTokensForUser(tokenStore, user_id)
    /\ UNCHANGED <<clock, issued, authCall>>
    /\ TokUnchanged

\* what auth::refreshToken returns: "" when jwt::decode threw
refreshed(token, now) ==
    IF jwt_decode(token) THEN jwt_create(token.sub, now) ELSE NoToken

\* auth::refreshToken(token)
RefreshToken(token) ==
    /\ IF jwt_decode(token)
       THEN /\ tokenStore' = insertToken(deleteToken(tokenStore, token),
                                         refreshed(token, clock))
            /\ issued' = issued \cup {refreshed(token, clock)}
       ELSE UNCHANGED <<tokenStore, issued>>
    /\ authCall' = [op |-> "refreshToken", token |-> token, ret |-> refreshed(token, clock)]
    /\ UNCHANGED clock
    /\ TokUnchanged

TokInit == served = {} /\ Forked /\ ~rdwr

TokNext ==
    \/ Tick
    \/ \E u \in UserIds : login(u)
    \/ \E u \in UserIds : logout(u)
    \/ \E u \in UserIds : changePasswordRevokes(u)
    \/ \E token \in Presentable : RefreshToken(token)

TokSpec == TokInit /\ [][TokNext]_vars

(* ---- the Core under a peer that never stops writing --------------------- *)
\* The peer writes one edit of the big note, counted and tagged as before,
\* and sign-ins without end.  To keep the states finite the sign-ins carry
\* tag 0 and leave the histories alone, the peer lets at most Backlog
\* records wait in GW2DP, and it reads every reply in the step that writes
\* it, so DP2GW stays as it is.
Backlog == 1

UrgentTask == F_Task("SIGN_IN", [username |-> "alice", password |-> "secret123"], 0)

StarveMenu ==
    {Record("PUT_BIGNOTE_EDIT", [userId |-> 1, classId |-> "c1", content |-> "text"])}

StarveInit ==
    /\ numThreads \in 1 .. HarnessThreads
    /\ limit = 1
    /\ menu = StarveMenu
    /\ backend = {"ok"}
    /\ ConstructedOnOpenChannels

\* the peer writes one more sign-in
pushUrgent ==
    /\ edgePc = "harness"
    /\ Len(e2c) < Backlog
    /\ e2c' = send(e2c, UrgentTask)
    /\ UNCHANGED <<cfgVars, auxVars, opened, c2e, edgePc, edgeHs, routes, hpc, hres, hroute,
                   res, late, pushed, sentType, expired, coreVars, nSent>>

\* the replies written for a task, counted unless its tag is 0
SentTagged(task) == IF task.id = 0 THEN nSent ELSE Sent(task)

\* DispatcherAdmit without the count of the pushes
AdmitUncounted ==
    /\ corePc = "dispatch"
    /\ ~IsKill(dtask)
    /\ IF QueueFull
       THEN /\ corePc' = "busy_send"
            /\ dropped' = dropped \cup {dtask.id}
            /\ UNCHANGED <<taskQueue_, wpc>>
       ELSE /\ taskQueue_' = QueuePush(taskQueue_, PrioritizedTask(dtask, enqSeq + 1))
            /\ IF Waiting = {}
               THEN wpc' = wpc
               ELSE \E w \in Waiting : wpc' = notify_one(w)
            /\ corePc' = "loop"
            /\ UNCHANGED dropped
    /\ UNCHANGED <<cfgVars, auxVars, opened, e2c, c2e, edgeVars, dtask, running_, threadPool_,
                   wtask, enqSeq, nSent, dread>>

\* DispatcherBusySend with the reply read by the peer at once
BusySendConsumed ==
    /\ corePc = "busy_send"
    /\ nSent' = SentTagged(BusyReply(dtask))
    /\ corePc' = "loop"
    /\ UNCHANGED <<cfgVars, auxVars, opened, e2c, c2e, edgeVars, dtask, running_,
                   threadPool_, taskQueue_, wpc, wtask, enqSeq, dread, dropped>>

\* WorkerProcess with the reply read by the peer at once
ProcessConsumed(w) ==
    /\ wpc[w] = "process"
    /\ \E outcome \in backend :
          /\ wtask' = [wtask EXCEPT ![w] = processTask(wtask[w], outcome)]
          /\ nSent' = SentTagged(processTask(wtask[w], outcome))
    /\ wpc' = [wpc EXCEPT ![w] = "top"]
    /\ UNCHANGED <<cfgVars, auxVars, opened, e2c, c2e, edgeVars, corePc, dtask, running_,
                   threadPool_, taskQueue_, enqSeq, dread, dropped>>

StarveMain ==
    \/ DispatcherReadPing \/ DispatcherPong \/ createThreadPool
    \/ DispatcherRead \/ AdmitUncounted \/ BusySendConsumed

StarveWorker(w) == WorkerLoop(w) \/ WorkerLock(w) \/ ProcessConsumed(w)

StarveNext ==
    \/ \E rec \in menu : pushTask(rec)
    \/ pushUrgent
    \/ StarveMain
    \/ \E w \in Workers : StarveWorker(w)
    \/ \E w \in Workers : WorkerSpuriousWake(w)

\* every thread of the Core that can run does run; the peer need not write
StarveSpec ==
    /\ StarveInit
    /\ [][StarveNext]_vars
    /\ WF_vars(StarveMain)
    /\ \A w \in Workers : WF_vars(StarveWorker(w))

(* ======================================================================= *)
(* Properties                                                              *)
(* ======================================================================= *)
Created == {w \in Workers : w < threadPool_}

\* a worker takes a task off the queue in this step
Pops(w) == wpc[w] = "lock" /\ wpc'[w] = "process"

\* the Core's main thread takes a step
CoreSteps == corePc' # corePc

C2_QueueAtMostN == Len(taskQueue_) <= numThreads

C2_Witness == numThreads > 1 /\ Len(taskQueue_) = numThreads

\* C3: a non-SYSKILL task read while the queue holds N tasks is dropped:
\* the dispatcher does not touch the queue, writes exactly one ERROR record
\* with the server-busy payload on C->E, and no worker ever executes the task.
C3_BusyDrop ==
    /\ [][(CoreSteps /\ corePc = "dispatch" /\ dtask.type # "SYSKILL"
             /\ Len(taskQueue_) >= numThreads)
          => (corePc' = "busy_send" /\ taskQueue_' = taskQueue_ /\ c2e' = c2e)]_vars
    /\ [][(CoreSteps /\ corePc = "busy_send")
          => /\ taskQueue_' = taskQueue_
             /\ Len(c2e') = Len(c2e) + 1
             /\ c2e'[Len(c2e')].type = "ERROR"
             /\ c2e'[Len(c2e')].data
                  = [error |-> "Server busy! Request dropped, please try again later."]
             /\ corePc' = "loop"]_vars
    /\ [](\A t \in dropped :
            /\ nSent[t] = (IF corePc = "busy_send" /\ dtask.id = t THEN 0 ELSE 1)
            /\ \A w \in Workers : wtask[w].id # t
            /\ \A i \in 1 .. Len(taskQueue_) : taskQueue_[i].task.id # t)

C3_Witness ==
    /\ corePc = "loop"
    /\ \E t \in dropped : nSent[t] = 1
    /\ Len(taskQueue_) = numThreads

C5_FifoAmongEqualPriority ==
    [][\A w \in Workers : Pops(w) =>
          \A i \in 1 .. Len(taskQueue_) :
              taskQueue_[i].priority = QueueTop(taskQueue_).priority
                  => QueueTop(taskQueue_).seq <= taskQueue_[i].seq]_vars

\* C6: every non-SYSKILL task the dispatcher reads leads to exactly one
\* record on C->E; stated of the moment Dispatcher::start has returned.
C6_ExactlyOneReply ==
    corePc = "done" => \A t \in dread \ {0} : nSent[t] = 1

\* C7: once both processes run, neither is stuck before the handshake is
\* complete: as long as it is not, the Edge or the Core can take a step.
HandshakeComplete == edgeHs.type = "PING" /\ nSent[0] >= 1

C7_StartupNeverStuck ==
    HandshakeComplete \/ ENABLED (EdgeMain \/ CoreOpen \/ CoreMain)

\* C8: the Core creates its worker threads only after it has read the Edge's
\* first task and written a PING on C->E; the Edge registers its routes and
\* accepts connections only after it has read that reply.
C8_HandshakeOrder ==
    /\ (threadPool_ > 0 \/ \E w \in Workers : wpc[w] # "none")
           => (dtask # NoTask /\ nSent[0] >= 1)
    /\ (routes \/ Accepting) => edgeHs.type = "PING"

C8_Witness == threadPool_ > 0 /\ routes /\ Accepting

\* C9: once the dispatcher has read SYSKILL it reads nothing more and
\* enqueues nothing more; a task written on E->C after SYSKILL stays there,
\* is held by no worker and is never answered.
C9_NothingAfterKill ==
    /\ [][dtask.type = "SYSKILL"
          => (Len(e2c') >= Len(e2c) /\ Len(taskQueue_') <= Len(taskQueue_))]_vars
    /\ [](\A t \in late :
            /\ t \notin dread
            /\ nSent[t] = 0
            /\ \A w \in Workers : wtask[w].id # t
            /\ \E i \in 1 .. Len(e2c) : e2c[i].id = t)

C9_Witness == late # {} /\ corePc = "done"

\* C10: after the dispatcher has read SYSKILL, every worker thread exits and
\* Dispatcher::start returns with all of them joined.
C10_ShutdownCompletes ==
    (dtask.type = "SYSKILL")
        ~> (corePc = "done" /\ \A w \in Created : wpc[w] = "exited")

C10_Witness ==
    /\ corePc = "done"
    /\ threadPool_ > 1
    /\ \A w \in Created : wpc[w] = "exited"
    /\ dread # {}

\* C11: a worker thread exits only when shutdown is set and the queue is
\* empty, so when Dispatcher::start has returned the queue is empty: every
\* task admitted before SYSKILL has been popped and answered.
C11_DrainedOnExit ==
    /\ [][\A w \in Workers :
            (wpc[w] # "exited" /\ wpc'[w] = "exited")
                => (~running_ /\ Len(taskQueue_) = 0)]_vars
    /\ [](corePc = "done" => Len(taskQueue_) = 0)

\* C12: when a handler has timed out before the Core wrote the reply to its
\* task, that reply, written later, is discarded: no handler of another
\* request gets it as its response.
C12_LateReplyDiscarded ==
    \A q \in expired : \A r \in Requests \ {q} :
        hpc[r] = "done" => hres[r].id # q

\* C13: with N = 1, when a second PUT_BIGNOTE_EDIT and then a SIGN_IN have
\* arrived while the single worker is still executing a first
\* PUT_BIGNOTE_EDIT, the task the worker dequeues next is the SIGN_IN.
C13_SignInOvertakes ==
    (/\ numThreads = 1
     /\ sentType[1] = "PUT_BIGNOTE_EDIT"
     /\ sentType[2] = "PUT_BIGNOTE_EDIT"
     /\ sentType[3] = "SIGN_IN"
     /\ wpc[0] = "process" /\ wtask[0].id = 1
     /\ {2, 3} \subseteq dread
     /\ corePc = "loop")
        => (Len(taskQueue_) > 0 /\ QueueTop(taskQueue_).task.type = "SIGN_IN")

\* C14: with N = 2, while both workers are executing handlers and nothing
\* is queued, a third task read from E->C is rejected at once with the
\* server-busy ERROR reply and is not enqueued.
C14_BusyWhenAllWorkersBusy ==
    [][(/\ numThreads = 2
        /\ wpc[0] = "process" /\ wpc[1] = "process"
        /\ Len(taskQueue_) = 0
        /\ corePc = "dispatch" /\ dtask.type # "SYSKILL"
        /\ CoreSteps)
          => (corePc' = "busy_send" /\ taskQueue_' = taskQueue_)]_vars

\* C15: when no reply arrives within the handler's deadline, the HTTP
\* response of that request has status 504 and an error body saying
\* gateway timeout.
C15_TimeoutIs504 ==
    \A r \in Requests :
        (hpc[r] = "done" /\ hres[r] = TimeoutTask)
            => /\ res[r].status = 504
               /\ contains(res[r].body, "error")
               /\ res[r].body.error = "gateway timeout"

\* C16: a request whose task was dropped by admission control, and whose
\* handler has got the server-busy reply to it, is answered with HTTP status
\* 503 and the body {error: "server busy"}.
C16_BusyIs503 ==
    \A r \in Requests :
        (/\ r \in dropped
         /\ hpc[r] = "done"
         /\ hres[r] = BusyReply(hres[r]) /\ hres[r].id = r)
            => /\ res[r].status = 503
               /\ res[r].body = [error |-> "server busy"]

\* a reply of a handler that failed: its status code is not one of success
Failed(reply) ==
    ~contains(reply.data, "statusCode") \/ reply.data.statusCode >= 400

\* C17: whenever a handler fails (missing or invalid fields, bad
\* credentials, not found), the reply the worker sends on C->E has kind
\* ERROR and a payload with a numeric statusCode and an error message.
C17_FailureRepliesAreErrors ==
    [][\A w \in Workers :
          (wpc[w] = "process" /\ wpc'[w] = "top" /\ Failed(c2e'[Len(c2e')]))
              => /\ c2e'[Len(c2e')].type = "ERROR"
                 /\ contains(c2e'[Len(c2e')].data, "statusCode")
                 /\ c2e'[Len(c2e')].data.statusCode \in Nat
                 /\ contains(c2e'[Len(c2e')].data, "error")]_vars

\* the half of it that the handlers keep: the payload of a failure
C17_FailurePayload ==
    [][\A w \in Workers :
          (wpc[w] = "process" /\ wpc'[w] = "top" /\ Failed(c2e'[Len(c2e')]))
              => /\ contains(c2e'[Len(c2e')].data, "statusCode")
                 /\ c2e'[Len(c2e')].data.statusCode \in Nat
                 /\ contains(c2e'[Len(c2e')].data, "error")]_vars

\* C18: on shutdown the Edge stops accepting HTTP requests before it sends
\* SYSKILL, so no handler writes a request task on E->C after the SYSKILL
\* task.
C18_NoRequestAfterKill == late = {}

\* C19: on SIGINT the Edge runs the same shutdown sequence as on an explicit
\* stop: when the Edge process has exited on SIGINT after its server was set
\* up, a SYSKILL task has been written on E->C (it is in the channel or the
\* Core has read it).
C19_SigintSendsKill ==
    (edgePc = "sigint_exit" /\ routes)
        => \/ \E i \in 1 .. Len(e2c) : e2c[i].type = "SYSKILL"
           \/ dtask.type = "SYSKILL"

\* C20: when the body of a request to a JSON route fails to parse, the
\* handler answers HTTP 400 with an error body and writes nothing on E->C:
\* the Core never sees a task for that request.
C20_ParseErrorIs400 ==
    /\ [][\A r \in Requests :
            (hpc[r] = "idle" /\ hpc'[r] = "done")
                => /\ res'[r].status = 400
                   /\ contains(res'[r].body, "error")
                   /\ e2c' = e2c]_vars
    /\ [](\A r \in Requests :
            (hpc[r] = "done" /\ hres[r] = NoTask)
                => /\ res[r].status = 400
                   /\ r \notin dread
                   /\ nSent[r] = 0
                   /\ \A i \in 1 .. Len(e2c) : e2c[i].id # r
                   /\ \A i \in 1 .. Len(taskQueue_) : taskQueue_[i].task.id # r
                   /\ \A w \in Workers : wtask[w].id # r)

\* a request with a malformed body has been answered next to one that the
\* Core has read
C20_Witness ==
    /\ dread # {}
    /\ \E r \in Requests :
          /\ hpc[r] = "done" /\ hres[r] = NoTask
          /\ hroute[r] \in JsonRoutes
          /\ res[r] = [status |-> 400, body |-> [error |-> "parse error"]]

(* ---- C21 --------------------------------------------------------------- *)
\* C21: a handler of an auth route whose body parsed has written one task
\* on GW2DP, and its type_ is the kind the route table names for the route:
\* REGISTER for register, SIGN_IN for login, LOG_OUT for logout.
C21_AuthRouteSendsItsKind ==
    \A r \in Requests :
        (/\ hpc[r] \in {"poll", "read", "done"}
         /\ hroute[r] \in AuthRoutes
         /\ res[r] # CatchResponse("parse error"))
        => sentType[r] = CASE hroute[r] = "/api/auth/register" -> "REGISTER"
                           [] hroute[r] = "/api/auth/login" -> "SIGN_IN"
                           [] hroute[r] = "/api/auth/logout" -> "LOG_OUT"

(* ---- C22 --------------------------------------------------------------- *)
\* the loop is at in_.read(task), the FIFO is empty and has no writer
AtEof ==
    /\ corePc = "loop"
    /\ running_
    /\ Len(e2c) = 0
    /\ stray = 0
    /\ peerClosed
    /\ ~rdwr

\* C22: a read of the dispatcher loop that returns zero bytes raises the
\* no-writers-attached error (not the read error), which leaves start: that
\* read enqueues nothing, and the loop never reads, admits, drops or shuts
\* down in the ordinary way afterwards.
C22_EofIsFatal ==
    [][/\ (AtEof /\ corePc' # corePc)
           => /\ thrown' = "No writers attached to pipe."
              /\ thrown' # read(-1).threw
              /\ corePc' = "threw"
              /\ enqSeq' = enqSeq
              /\ taskQueue_' = taskQueue_
       /\ corePc = "threw"
           => /\ corePc' = "threw"
              /\ enqSeq' = enqSeq
              /\ dread' = dread
              /\ dropped' = dropped
              /\ dtask' = dtask
              /\ running_' = running_]_vars

\* the loop has read end-of-file after admitting a task
C22_Witness ==
    /\ corePc = "threw"
    /\ thrown = "No writers attached to pipe."
    /\ enqSeq > 0

(* ---- C23 --------------------------------------------------------------- *)
\* C23: while the dispatcher holds a task that a short read left incomplete,
\* it enqueues nothing, answers nothing as busy and does not shut down.
C23_ShortReadIgnored ==
    [][(corePc = "dispatch" /\ shortRead)
          => /\ enqSeq' = enqSeq
             /\ dropped' = dropped
             /\ running_' = running_
             /\ corePc' \in {"dispatch", "loop"}]_vars

(* ---- C24 --------------------------------------------------------------- *)
\* C24: a handler whose write of the task to GW2DP failed has got an ERROR
\* task back from processTaskAndWaitForResponse, which waited for no reply,
\* and no exception has left processTaskAndWaitForResponse.
C24_WriteFailureReturnsError ==
    \A r \in Requests :
        (/\ hpc[r] = "done"
         /\ hroute[r] \in Routes
         /\ sentType[r] = "NONE"
         /\ res[r] # CatchResponse("parse error"))
        => /\ hthrew[r] = ""
           /\ hres[r].type = "ERROR"

C26_InvalidRefreshIs401 ==
    \A i \in 1 .. Len(c2e) :
        c2e[i].type = "AUTH_REFRESH"
        => /\ \A outcome \in backend :
                 refreshToken("invalid.token.string", outcome).threw # ""
           /\ c2e[i].data.statusCode = 401
           /\ ~contains(c2e[i].data, "token")

(* ---- C27 --------------------------------------------------------------- *)
\* C27: as long as no other writeFile has been called on a path since a
\* writeFile of that path returned, readFile of the path returns exactly the
\* data that was written, and two reads of a path with no call between them
\* return the same bytes.
C27_ReadReturnsWritten ==
    /\ [](\A file_path \in Paths :
            written[file_path].exists
            => readFile(file_path) = [threw |-> "", ret |-> written[file_path].bytes])
    /\ []((fileRet.op = "readFile" /\ written[fileRet.path].exists)
            => /\ fileRet.threw = ""
               /\ fileRet.bytes = written[fileRet.path].bytes)
    /\ [][(/\ fileRet.op = "readFile"
            /\ fileRet'.op = "readFile"
            /\ fileRet'.path = fileRet.path)
           => fileRet'.bytes = fileRet.bytes]_vars

\* a file was written twice, the second time with other data, and read
C27_Witness ==
    /\ fileRet.op = "readFile"
    /\ fileRet.path = "test_file.txt"
    /\ fileRet.bytes = <<"x">>
    /\ written["test_file.txt"] = File(<<"x">>)
    /\ written["note.txt"] = File(<<"H", "i">>)

(* ---- C28 --------------------------------------------------------------- *)
\* C28: a worker that is in processTask or in its write to DP2GW does not
\* own taskMutex_, and neither does the dispatcher loop while it sends the
\* busy ERROR.
C28_NoLockWhileProcessingOrSending ==
    /\ \A w \in Workers :
          wpc[w] \in {"process", "send", "sending"} => taskMutex_ # WorkerThread(w)
    /\ corePc \in {"busy_send", "busy_sending"} => taskMutex_ # MainThread

\* the dispatcher loop is in the send of a busy ERROR while a worker that
\* came for the next task owns the mutex
C28_Witness ==
    /\ corePc = "busy_sending"
    /\ \E w \in Workers : taskMutex_ = WorkerThread(w)

(* ---- C29 --------------------------------------------------------------- *)
\* the threads of the Core that are inside out_.send
InSend ==
    {WorkerThread(w) : w \in {v \in Workers : wpc[v] = "sending"}}
        \cup (IF corePc = "busy_sending" THEN {MainThread} ELSE {})

\* C29: at most one thread of the Core is inside send on DP2GW.
C29_OneCoreSender == Cardinality(InSend) <= 1

(* ---- C30 --------------------------------------------------------------- *)
\* C30: at most one HTTP handler of the Edge is inside send on GW2DP.
C30_OneEdgeSender == Cardinality({r \in Requests : hpc[r] = "sending"}) <= 1

\* C31: a SYSKILL task is consumed by the dispatcher loop only: it is never
\* in the task queue and never held by a worker for processTask; running_
\* falls only in the loop's SYSKILL branch, and a worker leaves its loop only
\* when it has seen running_ false.
C31_KillStaysInTheLoop ==
    /\ [](\A i \in 1 .. Len(taskQueue_) : taskQueue_[i].task.type # "SYSKILL")
    /\ [](\A w \in Workers : wpc[w] = "process" => wtask[w].type # "SYSKILL")
    /\ [][(running_ /\ ~running_')
            => (corePc = "dispatch" /\ dtask.type = "SYSKILL" /\ CoreSteps)]_vars
    /\ [][\A w \in Workers :
            (wpc[w] # "exited" /\ wpc'[w] = "exited") => ~running_]_vars

\* SYSKILL was read while a task was queued and a worker has left since
C31_Witness ==
    /\ dtask.type = "SYSKILL"
    /\ ~running_
    /\ numThreads > 1
    /\ dread # {}
    /\ \E w \in Created : wpc[w] = "exited"
    /\ \E w \in Created : wpc[w] = "process"

\* the workers that are executing a handler
Executing == {w \in Workers : wpc[w] = "process"}

\* C32: in every reachable state of the Core the number of tasks in the
\* queue plus the number of tasks workers are executing is at most 2N.
C32_AtMostTwoN == Len(taskQueue_) + Cardinality(Executing) <= 2 * numThreads

\* the bound is met: N tasks queued while each of the N workers executes one
C32_Witness ==
    /\ Len(taskQueue_) = numThreads
    /\ Cardinality(Executing) = numThreads

\* C33: processTask lets no exception into the worker loop: when an
\* exception is raised while the handler of a task runs, the reply has
\* statusCode 500 and an error message, and the worker sends that reply on
\* C->E and goes on with its loop.
C33_ExceptionsBecome500 ==
    [][\A w \in Workers : (wpc[w] = "process" /\ wpc'[w] # "process") =>
          /\ wpc'[w] = "top"
          /\ Len(c2e') = Len(c2e) + 1
          /\ c2e'[Len(c2e')] = wtask'[w]
          /\ \A outcome \in backend :
                (/\ wtask'[w] = processTask(wtask[w], outcome)
                 /\ Raised(wtask[w], outcome) # "")
                    => /\ contains(wtask'[w].data, "error")
                       /\ wtask'[w].data.statusCode = 500]_vars

\* the part of C33 that holds: an exception that leaves a handler, or that
\* a handler of the classes and notes catches, is answered with 500
C33_EscapedIs500 ==
    [][\A w \in Workers : (wpc[w] = "process" /\ wpc'[w] # "process") =>
          /\ wpc'[w] = "top"
          /\ c2e' = Append(c2e, wtask'[w])
          /\ \A outcome \in backend :
                (/\ wtask'[w] = processTask(wtask[w], outcome)
                 /\ Raised(wtask[w], outcome) # ""
                 /\ wtask[w].type # "REGISTER")
                    => wtask'[w].data = catch_exception(Raised(wtask[w], outcome))]_vars

\* the threads inside the file I/O section for a path
InIo(p) == {t \in IoThreads : io[t].pc = "io" /\ io[t].path = p}

\* C34: for a given file path at most one thread at a time is inside the
\* file I/O section of readFile, writeFile, readJsonFile or writeJsonFile,
\* and getFileMutex returns the same mutex for the same path as long as
\* the process lives.
C34_OneThreadPerPath ==
    /\ [](\A p \in ClassPaths : Cardinality(InIo(p)) <= 1)
    /\ [][\A p \in ClassPaths :
            fileMutexMap[p] # 0 => fileMutexMap'[p] = fileMutexMap[p]]_vars
    /\ [](\A t \in IoThreads :
            io[t].pc \in {"file_lock", "io"} => io[t].mtx = fileMutexMap[io[t].path])

\* one thread is inside the I/O section of a path, the other has got the
\* same mutex for the same path from a later call and waits for it
C34_Witness ==
    \E t, u \in IoThreads :
        /\ io[t].pc = "io"
        /\ io[u].pc = "file_lock"
        /\ io[u].path = io[t].path
        /\ io[u].mtx = io[t].mtx
        /\ io[t].op # io[u].op

\* C35: in the legacy DispatcherImpl a CREATE_NOTE task is processed
\* exclusively: while the Core::createNote that addTask started for it has
\* not returned, no worker thread is executing another task.
C35_CreateNoteIsExclusive ==
    caller.pc = "createNote" => \A w \in ImplWorkers : threads[w].pc # "run"

\* the task with tag t is in the queue
Queued(t) == \E i \in 1 .. Len(taskQueue_) : taskQueue_[i].task.id = t

\* C36: when the workers are scheduled fairly, every task admitted to the
\* queue is eventually dequeued and answered, also when more urgent tasks
\* keep arriving on E->C.
C36_NoAdmittedTaskStarves ==
    \A t \in Tags \ {0} : Queued(t) ~> (~Queued(t) /\ nSent[t] = 1)

\* C37: the dispatcher drops a task as server-busy only when every worker
\* thread is executing a handler; no task is dropped while a worker is idle
\* (blocked on the condition variable, or woken and about to take a task).
C37_DropOnlyWhenAllExecuting ==
    [][(corePc = "dispatch" /\ corePc' = "busy_send")
          => \A w \in Created : wpc[w] = "process"]_vars

\* C38: once Dispatcher::start has been left, after SYSKILL or after an
\* error raised by the read of E->C, every worker thread has been woken and
\* joined: none is still in its loop or blocked on the condition variable.
C38_WorkersJoinedWhenStartIsLeft ==
    corePc \in {"done", "threw"} => \A w \in Created : wpc[w] = "exited"

\* the half of C38 that is about SYSKILL
C38_JoinedAfterKill ==
    corePc = "done" => \A w \in Created : wpc[w] = "exited"

\* C39: a call of auth::refreshToken leaves the caller with a new valid
\* token (signed by the server and in the tokens table) only when the token
\* it was given is valid at the call: not for a token that logout or
\* changePassword has revoked, and not for one with a forged signature.
C39_RefreshNeedsValidToken ==
    [][\A token \in Presentable :
          (RefreshToken(token) /\ validateToken(tokenStore', refreshed(token, clock)))
             => validateToken(tokenStore, token)]_vars

\* the half of C39 that is kept: a string that is not a JWT yields nothing
C39_JunkYieldsNothing ==
    [][RefreshToken(NoToken) => (tokenStore' = tokenStore /\ authCall'.ret = NoToken)]_vars

\* the worker has answered its task with statusCode 200
Answered(t, type, path) ==
    /\ io[t].step = "done"
    /\ io[t].reply = 200
    /\ io[t].edit.type = type
    /\ classPath(io[t].edit.data.classId) = path

\* C40: when one worker has answered a PUT_CLASS and another a
\* PUT_BIGNOTE_EDIT for the same class with 200, however their steps were
\* interleaved, the class file holds the new name and the new big note:
\* neither update is lost.
C40_BothUpdatesTakeEffect ==
    \A t, u \in IoThreads, path \in ClassPaths :
        (Answered(t, "PUT_CLASS", path) /\ Answered(u, "PUT_BIGNOTE_EDIT", path))
           => /\ disk[path].name = io[t].edit.data.name
              /\ disk[path].bigNote = io[u].edit.data.content.text

====
